---- MODULE Spec2Model ----
(***************************************************************************)
(* OdooDevMCP: the sliding-window rate limiter (security/security.py), the *)
(* JSON-RPC dispatcher (controllers/mcp_endpoint.py and                    *)
(* services/mcp_server.py), the tool registry (tools/registry.py) and the  *)
(* heartbeat cron (models/mcp_heartbeat.py, services/phone_home.py).       *)
(*                                                                         *)
(* Time is counted in whole clock ticks; time.time() is read as `now`.     *)
(* A Python dict is a function whose DOMAIN is the set of its keys, a      *)
(* Python list is a sequence.                                              *)
(***************************************************************************)
EXTENDS Integers, Sequences, FiniteSets, TLC

VARIABLES
    now,               \* the value time.time() returns
    rate_limit_state,  \* security._rate_limit_state: db -> category -> timestamps
    log,               \* observation: one record per finished check_rate_limit call
    focus,             \* Spec: the bucket (db, category) the callers of a run use
    quota,             \* SpecIndep: category -> [max_calls, period], as the handlers fix them
    pc,                \* per thread: its position inside check_rate_limit
    th_now,            \* per thread: its local `now`
    th_new,            \* per thread: the list the comprehension of line 167 built
    th_ok,             \* per thread: "none", "accepted" or "rejected"
    phase,             \* dispatcher: "idle", or "responded" once a request is answered
    request,           \* dispatcher: the body of the request being answered
    response,          \* dispatcher: the JSON document sent back
    trace,             \* dispatcher: what the request invoked, in order
    hostname,          \* phone-home: what socket.gethostname() returns
    marker,            \* phone-home: ir.config_parameter 'mcp.last_hostname', "" when unset
    cron,              \* phone-home: position and locals of _cron_send_heartbeat
    sent,              \* phone-home: what the running heartbeat tick did, in order
    config,            \* phone-home: ir.config_parameter url, retry count and timeout
    regs,              \* phone-home: per caller, its running register_server / send_heartbeat
    posts,             \* phone-home: the requests.post calls made, in order
    sleeps,            \* phone-home: the time.sleep calls made, in order
    servers,           \* receiver: server_id -> stored record
    servers_lock,      \* receiver: the holder of servers_lock, "" when free
    recv,              \* receiver: per request thread, its position and locals
    health             \* per health check: its position, locals and background task

vars == <<now, rate_limit_state, log, focus, quota, pc, th_now, th_new, th_ok,
          phase, request, response, trace, hostname, marker, cron, sent,
          config, regs, posts, sleeps, servers, servers_lock, recv, health>>

rlVars == <<now, rate_limit_state, log>>
thVars == <<pc, th_now, th_new, th_ok>>
dispVars == <<phase, request, response, trace>>
homeVars == <<hostname, marker, cron, sent>>
netVars == <<config, regs, posts, sleeps>>
recvVars == <<servers, servers_lock, recv>>

(***************************************************************************)
(* Bounds and input sets                                                   *)
(***************************************************************************)
MaxTime == 2        \* the clock stops advancing here
MaxOps == 4         \* calls of one run of Spec
MaxIndepOps == 4    \* calls of one run of SpecIndep
NThreads == 3       \* concurrent callers of SpecConc

DBs == {"db1", "db2"}
Cats == {"command", "shell"}
MaxCallsChoices == {0, 1, 2}
Periods == {1, 2}

(***************************************************************************)
(* Python dict and list helpers                                            *)
(***************************************************************************)
EmptyDict == [k \in {} |-> 0]

DictSet(d, k, v) == [x \in (DOMAIN d) \cup {k} |-> IF x = k THEN v ELSE d[x]]

Elems(s) == {s[i] : i \in 1..Len(s)}

Last(s) == s[Len(s)]

(***************************************************************************)
(* security.check_rate_limit                                               *)
(***************************************************************************)
db_key_shared(dbname) == "shared"

\* line 154: db_key = env.cr.dbname
db_key(dbname) == dbname

\* lines 157-161: the two lazy initialisations
WithBucket(state, key, category) ==
    LET s1 == IF key \in DOMAIN state THEN state ELSE DictSet(state, key, EmptyDict)
    IN  IF category \in DOMAIN s1[key]
        THEN s1
        ELSE DictSet(s1, key, DictSet(s1[key], category, <<>>))

KeepCallInclusive(t, c, period) == t - c <= period

KeepCallAlways(t, c, period) == TRUE

\* line 167: the filter of the comprehension, now - c < period
KeepCall(t, c, period) == t - c < period

\* line 167: [c for c in calls if now - c < period]
Prune(calls, t, period) == SelectSeq(calls, LAMBDA c : KeepCall(t, c, period))

LimitReachedStrict(calls, max_calls) == Len(calls) > max_calls

\* line 169: len(calls) >= max_calls
LimitReached(calls, max_calls) == Len(calls) >= max_calls

\* The bucket of (dbname, category), the empty list when it was never created.
Bucket(state, dbname, category) ==
    LET key == db_key(dbname)
    IN  IF key \in DOMAIN state /\ category \in DOMAIN state[key]
        THEN state[key][category]
        ELSE <<>>

HasBucket(state, dbname, category) ==
    db_key(dbname) \in DOMAIN state /\ category \in DOMAIN state[db_key(dbname)]

StoreCallRecordFirst(calls, raised, t) == Append(calls, t)

\* lines 169-174: the raise leaves the pruned list, the normal path appends now
StoreCall(calls, raised, t) == IF raised THEN calls ELSE Append(calls, t)

\* lines 153-174 as a function of the state and the clock: the new state,
\* whether the call returned normally, and the list before and after
RateLimitStep(state, t, dbname, category, max_calls, period) ==
    LET key == db_key(dbname)
        s2 == WithBucket(state, key, category)
        before == s2[key][category]
        calls == Prune(before, t, period)
        raised == LimitReached(calls, max_calls)
        after == StoreCall(calls, raised, t)
    IN  [state |-> DictSet(s2, key, DictSet(s2[key], category, after)),
         ok |-> ~raised, before |-> before, after |-> after]

\* lines 141-174, one call run to completion by a single thread
check_rate_limit(dbname, category, max_calls, period) ==
    LET r == RateLimitStep(rate_limit_state, now, dbname, category, max_calls, period)
    IN  /\ rate_limit_state' = r.state
        /\ log' = Append(log, [db |-> dbname, cat |-> category,
                               max_calls |-> max_calls, period |-> period,
                               t |-> now, ok |-> r.ok,
                               before |-> r.before, after |-> r.after])
        /\ UNCHANGED now

\* time passes between calls
Tick ==
    /\ now < MaxTime
    /\ now' = now + 1
    /\ UNCHANGED <<rate_limit_state, log, focus, quota>>
    /\ UNCHANGED thVars
    /\ UNCHANGED dispVars
    /\ UNCHANGED homeVars
    /\ UNCHANGED <<netVars, recvVars, health>>

(***************************************************************************)
(* Spec: sequential callers of one bucket, max_calls free at every call    *)
(***************************************************************************)
ThreadsIdle ==
    /\ pc = EmptyDict
    /\ th_now = EmptyDict
    /\ th_new = EmptyDict
    /\ th_ok = EmptyDict

\* no heartbeat tick running, the hostname marker never written
HomeIdle ==
    /\ hostname = "host-a"
    /\ marker = ""
    /\ cron = [pc |-> "idle", current_hostname |-> "", last_hostname |-> "", result |-> FALSE]
    /\ sent = <<>>

\* no phone-home call running, nothing configured, the receiver empty
NetIdle ==
    /\ config = EmptyDict
    /\ regs = EmptyDict
    /\ posts = <<>>
    /\ sleeps = <<>>
    /\ servers = EmptyDict
    /\ servers_lock = ""
    /\ recv = EmptyDict
    /\ health = EmptyDict

DispatcherIdle ==
    /\ phase = "idle"
    /\ request = EmptyDict
    /\ response = EmptyDict
    /\ trace = <<>>

Init ==
    /\ now = 0
    /\ rate_limit_state = EmptyDict
    /\ log = <<>>
    /\ focus \in [db : DBs, cat : Cats]
    /\ quota = EmptyDict
    /\ ThreadsIdle
    /\ DispatcherIdle
    /\ HomeIdle
    /\ NetIdle

Call ==
    /\ Len(log) < MaxOps
    /\ \E k \in MaxCallsChoices, p \in Periods : check_rate_limit(focus.db, focus.cat, k, p)
    /\ UNCHANGED <<focus, quota>>
    /\ UNCHANGED thVars
    /\ UNCHANGED dispVars
    /\ UNCHANGED homeVars
    /\ UNCHANGED <<netVars, recvVars, health>>

Next == Call \/ Tick

Spec == Init /\ [][Next]_vars

(***************************************************************************)
(* Claims about sequential calls (Spec)                                    *)
(***************************************************************************)
\* The calls log[1..n] all used the quota and period of call n and all fell
\* inside one period counted from the first of them.
OneWindow(n) ==
    /\ \A i \in 1..n : /\ log[i].max_calls = log[n].max_calls
                        /\ log[i].period = log[n].period
    /\ log[n].t - log[1].t < log[n].period

\* C2: from an empty bucket, with max_calls >= 1, the calls made within one
\* period succeed up to the max_calls-th and every later one in that period
\* is rejected.
C2_FirstMaxCallsSucceed ==
    \A n \in 1..Len(log) :
        (log[n].max_calls >= 1 /\ OneWindow(n)) => (log[n].ok <=> n <= log[n].max_calls)

\* C2 witness: quota 2, two accepted calls at different ticks and a third,
\* rejected, all within one period.
C2_Witness ==
    /\ Len(log) >= 3
    /\ OneWindow(3)
    /\ log[3].max_calls = 2
    /\ log[1].t < log[2].t
    /\ log[1].ok /\ log[2].ok /\ ~log[3].ok

\* C3: a call on a full bucket (as many entries as its max_calls >= 1) is
\* accepted exactly when the oldest entry is at least `period` old.
C3_SlidingWindow ==
    \A n \in 1..Len(log) :
        (log[n].max_calls >= 1 /\ Len(log[n].before) = log[n].max_calls)
            => (log[n].ok <=> log[n].t - log[n].before[1] >= log[n].period)

\* C3 witness: quota 2; calls at t0 < t1 accepted, a call rejected while the
\* first is younger than the period, then a call accepted when exactly the
\* first has expired and the second still counts.
C3_Witness ==
    /\ Len(log) >= 4
    /\ \A i \in 1..4 : log[i].max_calls = 2 /\ log[i].period = log[1].period
    /\ log[1].ok /\ log[2].ok /\ ~log[3].ok /\ log[4].ok
    /\ log[1].t < log[2].t
    /\ log[4].t - log[1].t >= log[4].period
    /\ log[4].t - log[2].t < log[4].period
    /\ log[4].after = <<log[2].t, log[4].t>>

\* C5 as stated: at every instant every stored timestamp is less than the
\* period (of the latest call on its bucket) old.
C5_AlwaysWithinPeriod ==
    Len(log) > 0 =>
        \A c \in Elems(Bucket(rate_limit_state, focus.db, focus.cat)) :
            now - c < Last(log).period

\* C5 amended: right after a call, until the clock next advances, every
\* timestamp of the bucket is less than that call's period old.
C5_WithinPeriodAfterCall ==
    (Len(log) > 0 /\ Last(log).t = now) =>
        \A c \in Elems(Bucket(rate_limit_state, focus.db, focus.cat)) :
            now - c < Last(log).period

\* C5 witness: a call has just pruned an expired entry and kept a live one.
C5_Witness ==
    /\ Len(log) > 0
    /\ Last(log).t = now
    /\ \E c \in Elems(Last(log).before) : now - c >= Last(log).period
    /\ \E c \in Elems(Last(log).before) : now - c < Last(log).period
    /\ Len(Last(log).after) < Len(Last(log).before)

\* C6: a call with max_calls = 0 is rejected and stores no timestamp: the
\* bucket only loses entries.
C6_ZeroRejectsAll ==
    \A n \in 1..Len(log) :
        log[n].max_calls = 0 =>
            /\ ~log[n].ok
            /\ Len(log[n].after) <= Len(log[n].before)
            /\ Elems(log[n].after) \subseteq Elems(log[n].before)

\* C6 witness: a zero-quota call, after time has passed, on a bucket that
\* holds an entry still inside the period.
C6_Witness ==
    \E n \in 1..Len(log) :
        /\ log[n].max_calls = 0
        /\ log[n].t > 0
        /\ log[n].after # <<>>
        /\ ~log[n].ok

(***************************************************************************)
(* SpecIndep: sequential callers of every bucket; each category has the    *)
(* fixed quota and period its handler passes (tools/*.py)                  *)
(***************************************************************************)
InitIndep ==
    /\ now = 0
    /\ rate_limit_state = EmptyDict
    /\ log = <<>>
    /\ focus = EmptyDict
    /\ quota \in [Cats -> [max_calls : {1, 2}, period : Periods]]
    /\ ThreadsIdle
    /\ DispatcherIdle
    /\ HomeIdle
    /\ NetIdle

HandlerCall ==
    /\ Len(log) < MaxIndepOps
    /\ \E d \in DBs, c \in Cats :
           check_rate_limit(d, c, quota[c].max_calls, quota[c].period)
    /\ UNCHANGED <<focus, quota>>
    /\ UNCHANGED thVars
    /\ UNCHANGED dispVars
    /\ UNCHANGED homeVars
    /\ UNCHANGED <<netVars, recvVars, health>>

NextIndep == HandlerCall \/ Tick

SpecIndep == InitIndep /\ [][NextIndep]_vars

\* The accepted earlier calls of call n's own bucket that are younger than
\* its period when call n is made.
OwnLiveCalls(n) ==
    {j \in 1..(n - 1) : /\ log[j].db = log[n].db
                        /\ log[j].cat = log[n].cat
                        /\ log[j].ok
                        /\ log[n].t - log[j].t < log[n].period}

\* The outcome of every call is decided by the history of its own bucket.
C4_OutcomeOwnHistory ==
    \A n \in 1..Len(log) :
        log[n].ok <=> Cardinality(OwnLiveCalls(n)) < log[n].max_calls

\* A call leaves every bucket other than its own as it was.
C4_Frame ==
    Len(log') > Len(log) =>
        \A d \in DBs, c \in Cats :
            (d # Last(log').db \/ c # Last(log').cat) =>
                /\ HasBucket(rate_limit_state', d, c) = HasBucket(rate_limit_state, d, c)
                /\ Bucket(rate_limit_state', d, c) = Bucket(rate_limit_state, d, c)

\* C4: a call for (d, c) changes no bucket of another pair, and whether it
\* is accepted depends on the calls of (d, c) alone.
C4_Independence == []C4_OutcomeOwnHistory /\ [][C4_Frame]_vars

\* C4 witness: one bucket is exhausted (its last call was rejected) and then
\* the same category of the other database and the other category of the
\* same database both accept.
C4_Witness ==
    /\ Len(log) >= 4
    /\ ~log[2].ok /\ log[3].ok /\ log[4].ok
    /\ log[3].db # log[2].db /\ log[3].cat = log[2].cat
    /\ log[4].db = log[2].db /\ log[4].cat # log[2].cat
    /\ log[4].t = log[2].t

(***************************************************************************)
(* SpecConc: NThreads request threads inside check_rate_limit at once, on  *)
(* one bucket with one max_calls and period.  The function takes no lock,  *)
(* so a thread switch can fall between any two of its statements; lines    *)
(* 154-164 are taken as one step, the comprehension of line 167 and the    *)
(* slice assignment that stores its result as two.                         *)
(***************************************************************************)
Threads == 1..NThreads

InitConc ==
    /\ now = 0
    /\ rate_limit_state = EmptyDict
    /\ log = <<>>
    /\ focus \in [db : DBs, cat : Cats]
    /\ quota \in [max_calls : {1, 2}, period : Periods]
    /\ pc = [t \in Threads |-> "start"]
    /\ th_now = [t \in Threads |-> 0]
    /\ th_new = [t \in Threads |-> <<>>]
    /\ th_ok = [t \in Threads |-> "none"]
    /\ DispatcherIdle
    /\ HomeIdle
    /\ NetIdle

SharedCalls == Bucket(rate_limit_state, focus.db, focus.cat)

SetSharedCalls(v) ==
    LET key == db_key(focus.db)
    IN  rate_limit_state' =
            DictSet(rate_limit_state, key, DictSet(rate_limit_state[key], focus.cat, v))

\* lines 154-164: create the bucket if missing, now = time.time(), calls = the list
Enter(t) ==
    /\ pc[t] = "start"
    /\ rate_limit_state' = WithBucket(rate_limit_state, db_key(focus.db), focus.cat)
    /\ th_now' = [th_now EXCEPT ![t] = now]
    /\ pc' = [pc EXCEPT ![t] = "filter"]
    /\ UNCHANGED <<now, log, focus, quota, th_new, th_ok>>
    /\ UNCHANGED dispVars
    /\ UNCHANGED homeVars
    /\ UNCHANGED <<netVars, recvVars, health>>

\* line 167, right-hand side: [c for c in calls if now - c < period]
FilterCalls(t) ==
    /\ pc[t] = "filter"
    /\ th_new' = [th_new EXCEPT ![t] = Prune(SharedCalls, th_now[t], quota.period)]
    /\ pc' = [pc EXCEPT ![t] = "assign"]
    /\ UNCHANGED <<now, rate_limit_state, log, focus, quota, th_now, th_ok>>
    /\ UNCHANGED dispVars
    /\ UNCHANGED homeVars
    /\ UNCHANGED <<netVars, recvVars, health>>

\* line 167, left-hand side: calls[:] = ...
AssignCalls(t) ==
    /\ pc[t] = "assign"
    /\ SetSharedCalls(th_new[t])
    /\ pc' = [pc EXCEPT ![t] = "compare"]
    /\ UNCHANGED <<now, log, focus, quota, th_now, th_new, th_ok>>
    /\ UNCHANGED dispVars
    /\ UNCHANGED homeVars
    /\ UNCHANGED <<netVars, recvVars, health>>

\* lines 169-172: if len(calls) >= max_calls: raise RuntimeError
CompareLimit(t) ==
    /\ pc[t] = "compare"
    /\ IF LimitReached(SharedCalls, quota.max_calls)
       THEN /\ pc' = [pc EXCEPT ![t] = "done"]
            /\ th_ok' = [th_ok EXCEPT ![t] = "rejected"]
       ELSE /\ pc' = [pc EXCEPT ![t] = "append"]
            /\ UNCHANGED th_ok
    /\ UNCHANGED <<now, rate_limit_state, log, focus, quota, th_now, th_new>>
    /\ UNCHANGED dispVars
    /\ UNCHANGED homeVars
    /\ UNCHANGED <<netVars, recvVars, health>>

\* line 174: calls.append(now)
AppendCall(t) ==
    /\ pc[t] = "append"
    /\ SetSharedCalls(Append(SharedCalls, th_now[t]))
    /\ pc' = [pc EXCEPT ![t] = "done"]
    /\ th_ok' = [th_ok EXCEPT ![t] = "accepted"]
    /\ UNCHANGED <<now, log, focus, quota, th_now, th_new>>
    /\ UNCHANGED dispVars
    /\ UNCHANGED homeVars
    /\ UNCHANGED <<netVars, recvVars, health>>

NextConc ==
    \/ \E t \in Threads : Enter(t)
    \/ \E t \in Threads : FilterCalls(t)
    \/ \E t \in Threads : AssignCalls(t)
    \/ \E t \in Threads : CompareLimit(t)
    \/ \E t \in Threads : AppendCall(t)
    \/ Tick

SpecConc == InitConc /\ [][NextConc]_vars

Accepted == {t \in Threads : th_ok[t] = "accepted"}
Rejected == {t \in Threads : th_ok[t] = "rejected"}

\* C1: once all N callers of a bucket with max_calls = k < N have returned,
\* all having read the clock within one period, exactly k were accepted,
\* N - k rejected, and the bucket holds exactly k timestamps.
C1_ExactUnderConcurrency ==
    (/\ \A t \in Threads : pc[t] = "done"
     /\ \A t, u \in Threads : th_now[t] - th_now[u] < quota.period
     /\ NThreads > quota.max_calls)
        => /\ Cardinality(Accepted) = quota.max_calls
           /\ Cardinality(Rejected) = NThreads - quota.max_calls
           /\ Len(SharedCalls) = quota.max_calls

(***************************************************************************)
(* JSON values as json.loads returns them.  A scalar is [t, v] with v its  *)
(* text; a dict is a record that holds every key the code reads, a key the *)
(* document does not carry being Absent.                                   *)
(***************************************************************************)
Absent == [t |-> "absent", v |-> ""]
None == [t |-> "null", v |-> ""]
JStr(x) == [t |-> "str", v |-> x]
JNum(x) == [t |-> "num", v |-> x]
JBool(x) == [t |-> "bool", v |-> x]
JArr(x) == [t |-> "arr", v |-> x]

\* dict.get(key, default)
Get(d, key, default) == IF d[key].t = "absent" THEN default ELSE d[key]

\* Python truth value, as `not x` tests it
Truthy(j) ==
    CASE j.t = "absent" -> FALSE
      [] j.t = "null" -> FALSE
      [] j.t = "str" -> j.v # ""
      [] j.t = "num" -> j.v # "0"
      [] j.t = "bool" -> j.v = "true"
      [] j.t = "arr" -> j.v # "[]"
      [] OTHER -> TRUE

\* x == 'literal'
IsStr(j, lit) == j.t = "str" /\ j.v = lit

\* type(x).__name__
PyType(j) ==
    CASE j.t = "null" -> "NoneType"
      [] j.t = "str" -> "str"
      [] j.t = "num" -> "int"
      [] j.t = "bool" -> "bool"
      [] j.t = "arr" -> "list"
      [] OTHER -> "dict"

\* str(AttributeError) of x.attr on a value without it
NoAttribute(j, attr) == "'" \o PyType(j) \o "' object has no attribute '" \o attr \o "'"

\* str(x) inside an f-string
Text(j) == IF j.t = "null" THEN "None" ELSE j.v

\* json.dumps of a handler's result
JsonDumps(x) == "\"" \o x \o "\""

\* the value of an expression that may raise; Raised is an exception of class
\* Exception, Exited a BaseException outside it (SystemExit, KeyboardInterrupt)
Returned(x) == [raised |-> FALSE, exited |-> FALSE, msg |-> "", value |-> x]
Raised(m) == [raised |-> TRUE, exited |-> FALSE, msg |-> m, value |-> None]
Exited(m) == [raised |-> FALSE, exited |-> TRUE, msg |-> m, value |-> None]

(***************************************************************************)
(* tools/registry.py and the handlers' rate-limit gates                    *)
(***************************************************************************)
\* get_tool_registry().keys()
ToolNames ==
    {"execute_command", "query_database", "execute_sql", "get_db_schema",
     "read_file", "write_file", "odoo_shell", "service_status", "read_config",
     "list_modules", "get_module_info", "install_module", "upgrade_module"}

\* the check_rate_limit call each handler starts with, where it has one
ToolLimit ==
    [execute_command |-> [category |-> "command", max_calls |-> 10, period |-> 60],
     query_database |-> [category |-> "query", max_calls |-> 100, period |-> 60],
     execute_sql |-> [category |-> "write", max_calls |-> 50, period |-> 60],
     read_file |-> [category |-> "file_read", max_calls |-> 50, period |-> 60],
     write_file |-> [category |-> "file_write", max_calls |-> 30, period |-> 60],
     odoo_shell |-> [category |-> "shell", max_calls |-> 5, period |-> 60]]

\* security.py 170-172: the message of the RuntimeError
RateLimitMessage(category, max_calls, period) ==
    "Rate limit exceeded for " \o category \o ": " \o ToString(max_calls)
        \o " calls per " \o ToString(period) \o " seconds"

\* What the collaborators behind a handler or resource reader do; msg is the
\* message of the exception for "raise" and "bad_args".
Outcomes ==
    {[kind |-> "ok", msg |-> ""],
     [kind |-> "unserializable", msg |-> "Object of type datetime is not JSON serializable"],
     [kind |-> "raise", msg |-> "boom"],
     [kind |-> "raise", msg |-> ""],
     [kind |-> "bad_args", msg |-> "got an unexpected keyword argument 'x'"],
     [kind |-> "exit", msg |-> "SystemExit"]}

Event(e, a) == [ev |-> e, arg |-> a]

\* what the HTTP layer is left with when an exception leaves mcp_endpoint
Escaped(m) == [escaped |-> m]

\* The result of running part of a request: the value or exception, the
\* rate-limit state it leaves and the calls it made.
Ran(r, state, events) == [r |-> r, state |-> state, events |-> events]

\* str(TypeError) of calling a handler without the parameters its signature
\* requires; service_status, read_config and list_modules require none
MissingArguments ==
    [execute_command |-> "execute_command() missing 1 required positional argument: 'command'",
     query_database |-> "query_database() missing 1 required positional argument: 'query'",
     execute_sql |-> "execute_sql() missing 1 required positional argument: 'statement'",
     get_db_schema |-> "get_db_schema() missing 1 required positional argument: 'action'",
     read_file |-> "read_file() missing 1 required positional argument: 'path'",
     write_file |-> "write_file() missing 2 required positional arguments: 'path' and 'content'",
     odoo_shell |-> "odoo_shell_exec() missing 1 required positional argument: 'code'",
     get_module_info |-> "get_module_info() missing 1 required positional argument: 'module_name'",
     install_module |-> "install_module() missing 1 required positional argument: 'module_name'",
     upgrade_module |-> "upgrade_module() missing 1 required positional argument: 'module_name'"]

\* handler(env, **parameters): argument binding, the rate-limit gate, the body
RunHandler(state, t, dbname, tool, parameters, outcome) ==
    IF parameters.t # "obj"
    THEN Ran(Raised("argument after ** must be a mapping, not " \o PyType(parameters)),
             state, <<>>)
    ELSE IF parameters.v = "{}" /\ tool \in DOMAIN MissingArguments
    THEN Ran(Raised(MissingArguments[tool]), state, <<>>)
    ELSE IF outcome.kind = "bad_args"
    THEN Ran(Raised(outcome.msg), state, <<>>)
    ELSE
        LET gated == tool \in DOMAIN ToolLimit
            lim == ToolLimit[tool]
            step == RateLimitStep(state, t, dbname, lim.category, lim.max_calls, lim.period)
            entered == <<Event("handler", tool)>>
            body == IF outcome.kind = "raise"
                    THEN Raised(outcome.msg)
                    ELSE IF outcome.kind = "exit" /\ tool = "odoo_shell"
                    THEN \* odoo_tools.py 65: exec(code, exec_globals) inside
                         \* `except Exception`, which lets a SystemExit through
                         Exited(outcome.msg)
                    ELSE Returned([serializable |-> outcome.kind = "ok",
                                   text |-> "result of " \o tool])
        IN  IF gated
            THEN IF step.ok
                 THEN Ran(body, step.state,
                          entered \o <<Event("rate_check", lim.category)>>)
                 ELSE Ran(Raised(RateLimitMessage(lim.category, lim.max_calls, lim.period)),
                          step.state,
                          entered \o <<Event("rate_check", lim.category)>>)
            ELSE Ran(body, state, entered)

call_tool_unchecked(state, t, dbname, tool_name, parameters, outcome) ==
    RunHandler(state, t, dbname, tool_name, parameters, outcome)

\* registry.call_tool, lines 319-341
call_tool(state, t, dbname, tool_name, parameters, outcome) ==
    IF tool_name \notin ToolNames
    THEN Ran(Raised("Unknown tool: " \o tool_name), state, <<>>)
    ELSE RunHandler(state, t, dbname, tool_name, parameters, outcome)

ToolSchemaKeysWithReceiver ==
    <<"execute_command", "query_database", "execute_sql", "get_db_schema",
      "read_file", "write_file", "odoo_shell", "service_status", "read_config",
      "list_modules", "get_module_info", "install_module", "upgrade_module",
      "register_receiver">>

\* the keys of the dict get_tool_schemas() returns, in its order, registry.py 42-316
ToolSchemaKeys ==
    <<"execute_command", "query_database", "execute_sql", "get_db_schema",
      "read_file", "write_file", "odoo_shell", "service_status", "read_config",
      "list_modules", "get_module_info", "install_module", "upgrade_module">>

\* get_tool_schemas().keys() as a set
ToolSchemaNames == Elems(ToolSchemaKeys)

(***************************************************************************)
(* services/mcp_server.py: MCPServerHandler                                *)
(***************************************************************************)
\* lines 318-337; NoData stands for data = None
NoData == "<no data>"

error_response_null_id(code, message, data, request_id) ==
    [jsonrpc |-> "2.0",
     error |-> [code |-> code, message |-> message, data |-> data],
     id |-> None]

error_response(code, message, data, request_id) ==
    [jsonrpc |-> "2.0",
     error |-> IF data # NoData
               THEN [code |-> code, message |-> message, data |-> data]
               ELSE [code |-> code, message |-> message],
     id |-> request_id]

\* the success envelopes of lines 99-113, 125-131, 160-171, 217-223, 295-307
result_response(result, request_id) ==
    [jsonrpc |-> "2.0", result |-> result, id |-> request_id]

\* lines 97-113
handle_initialize(request_id) ==
    result_response([protocolVersion |-> "2024-11-05",
                     serverInfo |-> [name |-> "odoo-dev-mcp", version |-> "1.0.0"],
                     capabilities |-> {"tools", "resources"}],
                    request_id)

\* lines 115-131
handle_tools_list(request_id) ==
    result_response(
        [tools |-> [i \in DOMAIN ToolSchemaKeys |->
                       [name |-> ToolSchemaKeys[i],
                        description |-> "description of " \o ToolSchemaKeys[i],
                        inputSchema |-> "parameters of " \o ToolSchemaKeys[i]]]],
        request_id)

\* lines 182-223
ResourceCatalog ==
    {"odoo://config", "odoo://logs/{service}", "odoo://schema/{table}",
     "odoo://modules", "odoo://system"}

handle_resources_list(request_id) ==
    result_response([resources |-> ResourceCatalog], request_id)

\* tool_name not in self.tool_registry, line 147: a list or dict is unhashable
Unhashable(j) == j.t \in {"arr", "obj"}

\* lines 173-180: the except clause of _handle_tools_call
tool_failure(msg, request_id) ==
    error_response(-32603, "Tool execution failed", msg, request_id)

tool_success_unencoded(value, request_id) ==
    result_response([content |-> <<[type |-> "text", text |-> value]>>], request_id)

\* lines 157-171: the handler's result as one text block
tool_success(value, request_id) ==
    result_response([content |-> <<[type |-> "text", text |-> JsonDumps(value)]>>],
                    request_id)

EmptyParams == [t |-> "obj", v |-> "", name |-> Absent, arguments |-> Absent, uri |-> Absent]
EmptyArguments == [t |-> "obj", v |-> "{}"]

\* lines 133-180
handle_tools_call(state, t, dbname, params, request_id, outcome) ==
    IF params.t # "obj"
    THEN Ran(tool_failure(NoAttribute(params, "get"), request_id), state, <<>>)
    ELSE
        LET tool_name == Get(params, "name", None)
            tool_params == Get(params, "arguments", EmptyArguments)
            call == call_tool(state, t, dbname, tool_name.v, tool_params, outcome)
        IN  IF ~Truthy(tool_name)
            THEN Ran(error_response(-32602, "Invalid params", "Tool name is required",
                                    request_id), state, <<>>)
            ELSE IF Unhashable(tool_name)
            THEN Ran(tool_failure("unhashable type: '" \o PyType(tool_name) \o "'",
                                  request_id), state, <<>>)
            ELSE IF ~(tool_name.t = "str" /\ tool_name.v \in ToolNames)
            THEN Ran(error_response(-32602, "Invalid params",
                                    "Unknown tool: " \o Text(tool_name), request_id),
                     state, <<>>)
            ELSE IF call.r.exited
            THEN \* no `except Exception` on the way out catches it
                 Ran(Escaped(call.r.msg), call.state,
                     call.events \o <<Event("exit", call.r.msg)>>)
            ELSE IF call.r.raised
            THEN Ran(tool_failure(call.r.msg, request_id), call.state,
                     call.events \o <<Event("raise", call.r.msg)>>)
            ELSE IF ~call.r.value.serializable
            THEN Ran(tool_failure(outcome.msg, request_id), call.state,
                     call.events \o <<Event("raise", outcome.msg)>>)
            ELSE Ran(tool_success(call.r.value.text, request_id), call.state, call.events)

\* uri.split('/') for the URIs the clients of the model send
SplitSlash(u) ==
    CASE u = "odoo://config" -> <<"odoo:", "", "config">>
      [] u = "odoo://config/extra" -> <<"odoo:", "", "config", "extra">>
      [] u = "odoo://logs/odoo" -> <<"odoo:", "", "logs", "odoo">>
      [] u = "odoo://logs/cron" -> <<"odoo:", "", "logs", "cron">>
      [] u = "odoo://logs" -> <<"odoo:", "", "logs">>
      [] u = "odoo://schema/res_users" -> <<"odoo:", "", "schema", "res_users">>
      [] u = "odoo://modules" -> <<"odoo:", "", "modules">>
      [] u = "odoo://system" -> <<"odoo:", "", "system">>
      [] u = "odoo://unknown" -> <<"odoo:", "", "unknown">>
      [] OTHER -> <<u>>

UriStrings ==
    {"odoo://config", "odoo://config/extra", "odoo://logs/odoo", "odoo://logs/cron",
     "odoo://logs", "odoo://schema/res_users", "odoo://modules", "odoo://system",
     "odoo://unknown", "config"}

\* uri.startswith('odoo://<area>/')
StartsWithArea(u, area) ==
    LET parts == SplitSlash(u)
    IN  Len(parts) >= 4 /\ parts[1] = "odoo:" /\ parts[2] = "" /\ parts[3] = area

\* odoo_tools.service_status, lines 112-115
AllowedServices == {"odoo", "postgresql", "nginx"}
NotAllowed(service) ==
    "Service '" \o service \o "' not in allowed list: ['odoo', 'postgresql', 'nginx']"

\* lines 309-316: the except clause of _handle_resources_read
resource_failure(msg, request_id) ==
    error_response(-32603, "Resource read failed", msg, request_id)

\* A resource reader: the collaborator call and the serialization of what it
\* returns (lines 243-285)
RunReader(state, reader, mime, outcome, request_id, uri) ==
    IF outcome.kind \in {"raise", "unserializable"}
    THEN Ran(resource_failure(outcome.msg, request_id), state,
             <<Event("reader", reader), Event("raise", outcome.msg)>>)
    ELSE Ran(result_response(
                 [contents |-> <<[uri |-> uri, mimeType |-> mime,
                                  text |-> "content of " \o reader]>>],
                 request_id), state, <<Event("reader", reader)>>)

\* lines 225-316
handle_resources_read(state, params, request_id, outcome) ==
    IF params.t # "obj"
    THEN Ran(resource_failure(NoAttribute(params, "get"), request_id), state, <<>>)
    ELSE
        LET uri == Get(params, "uri", None)
        IN  IF ~Truthy(uri)
            THEN Ran(error_response(-32602, "Invalid params", "Resource URI is required",
                                    request_id), state, <<>>)
            ELSE IF uri.t # "str"
            THEN Ran(resource_failure(NoAttribute(uri, "startswith"), request_id),
                     state, <<>>)
            ELSE IF uri.v = "odoo://config"
            THEN RunReader(state, "read_config", "application/json", outcome,
                           request_id, uri.v)
            ELSE IF StartsWithArea(uri.v, "logs")
            THEN IF Last(SplitSlash(uri.v)) \in AllowedServices
                 THEN RunReader(state, "service_status", "text/plain", outcome,
                                request_id, uri.v)
                 ELSE Ran(resource_failure(NotAllowed(Last(SplitSlash(uri.v))), request_id),
                          state,
                          <<Event("reader", "service_status"),
                            Event("raise", NotAllowed(Last(SplitSlash(uri.v))))>>)
            ELSE IF StartsWithArea(uri.v, "schema")
            THEN RunReader(state, "get_db_schema", "application/json", outcome,
                           request_id, uri.v)
            ELSE IF uri.v = "odoo://modules"
            THEN RunReader(state, "list_modules", "application/json", outcome,
                           request_id, uri.v)
            ELSE IF uri.v = "odoo://system"
            THEN RunReader(state, "system", "application/json", outcome,
                           request_id, uri.v)
            ELSE Ran(error_response(-32602, "Invalid params",
                                    "Unknown resource URI: " \o uri.v, request_id),
                     state, <<>>)

invalid_version_code_32601(request_id) ==
    error_response(-32601, "Invalid Request", "jsonrpc must be '2.0'", request_id)

\* lines 51-57
invalid_version(request_id) ==
    error_response(-32600, "Invalid Request", "jsonrpc must be '2.0'", request_id)

method_not_found_as_invalid_request(method, request_id) ==
    error_response(-32600, "Invalid Request", "Unknown method: " \o Text(method), request_id)

\* lines 80-86
method_not_found(method, request_id) ==
    error_response(-32601, "Method not found", "Unknown method: " \o Text(method), request_id)

handle_request_counted(state, t, dbname, req, outcome) ==
    LET step == RateLimitStep(state, t, dbname, "request", 1, 60)
    IN  Ran(error_response(-32600, "Invalid Request",
                           IF step.ok THEN "first request" ELSE "too many requests", None),
            step.state, <<>>)

\* lines 28-95.  Every handler catches its own exceptions of class Exception,
\* so the except of line 88 is never entered; a BaseException passes it.
handle_request(state, t, dbname, req, outcome) ==
    IF req.t # "obj"
    THEN Ran(error_response(-32600, "Invalid Request", "Request must be a JSON object",
                            None), state, <<>>)
    ELSE
        LET jsonrpc == Get(req, "jsonrpc", None)
            method == Get(req, "method", None)
            request_id == Get(req, "id", None)
        IN  IF ~IsStr(jsonrpc, "2.0")
            THEN Ran(invalid_version(request_id), state, <<>>)
            ELSE IF ~Truthy(method)
            THEN Ran(error_response(-32600, "Invalid Request", "method is required",
                                    request_id), state, <<>>)
            ELSE IF IsStr(method, "tools/list")
            THEN Ran(handle_tools_list(request_id), state, <<>>)
            ELSE IF IsStr(method, "tools/call")
            THEN handle_tools_call(state, t, dbname, Get(req, "params", EmptyParams),
                                   request_id, outcome)
            ELSE IF IsStr(method, "resources/list")
            THEN Ran(handle_resources_list(request_id), state, <<>>)
            ELSE IF IsStr(method, "resources/read")
            THEN handle_resources_read(state, Get(req, "params", EmptyParams),
                                       request_id, outcome)
            ELSE IF IsStr(method, "initialize")
            THEN Ran(handle_initialize(request_id), state, <<>>)
            ELSE Ran(method_not_found(method, request_id), state, <<>>)

(***************************************************************************)
(* controllers/mcp_endpoint.py: MCPController.mcp_endpoint                 *)
(***************************************************************************)
\* A request body is empty, text that is no JSON document, or a document.
Body(kind, doc) == [kind |-> kind, json |-> doc]

\* json.loads(raw_data), lines 52-54
json_loads(raw) ==
    IF raw.kind = "json"
    THEN Returned(raw.json)
    ELSE Raised("Expecting value: line 1 column 1 (char 0)")

parse_error_as_invalid_request(data) ==
    [jsonrpc |-> "2.0",
     error |-> [code |-> -32600, message |-> "Parse error", data |-> data],
     id |-> None]

\* lines 38-50 and 55-67
parse_error(data) ==
    [jsonrpc |-> "2.0",
     error |-> [code |-> -32700, message |-> "Parse error", data |-> data],
     id |-> None]

\* lines 85-99: the except clause around the whole endpoint
on_exception(msg, request_id) ==
    [jsonrpc |-> "2.0",
     error |-> [code |-> -32603, message |-> "Internal error", data |-> msg],
     id |-> request_id]

\* lines 33-99
mcp_endpoint(state, t, dbname, raw, outcome) ==
    IF raw.kind = "empty"
    THEN Ran(parse_error("Empty request body"), state, <<>>)
    ELSE
        LET parsed == json_loads(raw)
            result == handle_request(state, t, dbname, parsed.value, outcome)
        IN  IF parsed.raised
            THEN Ran(parse_error(parsed.msg), state, <<>>)
            ELSE IF parsed.value.t # "obj"
            THEN \* line 69 raises AttributeError while request_id is still None
                 Ran(on_exception(NoAttribute(parsed.value, "get"), None), state, <<>>)
            ELSE result

(***************************************************************************)
(* The requests clients send                                               *)
(***************************************************************************)
IdChoices == {Absent, None, JNum("1"), JStr("abc")}
VersionChoices == {Absent, JStr("2.0"), JStr("1.0"), JNum("2")}
MethodChoices ==
    {Absent, None, JStr(""), JNum("7"), JStr("initialize"), JStr("tools/list"),
     JStr("tools/call"), JStr("resources/list"), JStr("resources/read"),
     JStr("nonexistent/method")}

NotADict == {None, JArr("[]"), JStr("x")}

NameChoices ==
    {Absent, None, JStr(""), JNum("0"), JNum("7"), JArr("[1]"),
     JStr("unknown_tool"), JStr("register_receiver")}
        \cup {JStr(n) : n \in ToolNames}

\* arguments are read by the handler only, so they vary for registered names
ArgumentChoices(name) ==
    IF name.t = "str" /\ name.v \in ToolNames
    THEN {Absent, None, JArr("[]"), [t |-> "obj", v |-> "{...}"]}
    ELSE {Absent}

ToolCallParams ==
    {Absent} \cup NotADict \cup
    UNION {{[t |-> "obj", v |-> "", name |-> n, arguments |-> a, uri |-> Absent] :
                a \in ArgumentChoices(n)} : n \in NameChoices}

UriChoices ==
    {Absent, None, JStr(""), JNum("7"), JArr("[1]")} \cup {JStr(u) : u \in UriStrings}

ResourceReadParams ==
    {Absent} \cup NotADict \cup
    {[t |-> "obj", v |-> "", name |-> Absent, arguments |-> Absent, uri |-> u] :
         u \in UriChoices}

\* params is read for tools/call and resources/read only
ParamsChoices(method) ==
    IF IsStr(method, "tools/call") THEN ToolCallParams
    ELSE IF IsStr(method, "resources/read") THEN ResourceReadParams
    ELSE {Absent}

Envelopes ==
    UNION {{[t |-> "obj", v |-> "", jsonrpc |-> j, method |-> m, id |-> i, params |-> p] :
                j \in VersionChoices, i \in IdChoices, p \in ParamsChoices(m)} :
           m \in MethodChoices}

Bodies ==
    {Body("empty", None), Body("garbage", None)}
        \cup {Body("json", d) : d \in {None, JNum("1"), JStr("x"), JBool("true"), JArr("[]")}}
        \cup {Body("json", d) : d \in Envelopes}

(***************************************************************************)
(* SpecDisp: one request at a time through the endpoint, on a server whose *)
(* rate-limit buckets are each one call short of their quota               *)
(***************************************************************************)
Zeros(n) == [i \in 1..n |-> 0]

GatedCategories == {ToolLimit[n].category : n \in DOMAIN ToolLimit}

QuotaOf(category) ==
    ToolLimit[CHOOSE n \in DOMAIN ToolLimit : ToolLimit[n].category = category].max_calls

\* the state check_rate_limit leaves after max_calls - 1 accepted calls at
\* time 0 in every gated category of one database
WarmState(dbname) ==
    DictSet(EmptyDict, db_key(dbname),
            [c \in GatedCategories |-> Zeros(QuotaOf(c) - 1)])

InitDisp ==
    /\ now = 0
    /\ focus \in [db : DBs]
    /\ rate_limit_state = WarmState(focus.db)
    /\ log = <<>>
    /\ quota = EmptyDict
    /\ ThreadsIdle
    /\ DispatcherIdle
    /\ HomeIdle
    /\ NetIdle

\* One HTTP POST to /mcp/v1, from the body to the response
McpEndpoint ==
    /\ phase = "idle"
    /\ \E raw \in Bodies, outcome \in Outcomes :
        LET ran == mcp_endpoint(rate_limit_state, now, focus.db, raw, outcome)
        IN  /\ request' = raw
            /\ response' = ran.r
            /\ rate_limit_state' = ran.state
            /\ trace' = ran.events
            /\ phase' = IF "escaped" \in DOMAIN ran.r THEN "escaped" ELSE "responded"
    /\ UNCHANGED <<now, log, focus, quota, thVars>>
    /\ UNCHANGED homeVars
    /\ UNCHANGED <<netVars, recvVars, health>>

\* The response is sent, or the exception has taken the worker down; the
\* server takes the next request (_rate_limit_state is module state, it stays)
NewRequest ==
    /\ phase \in {"responded", "escaped"}
    /\ phase' = "idle"
    /\ request' = EmptyDict
    /\ response' = EmptyDict
    /\ trace' = <<>>
    /\ UNCHANGED <<now, rate_limit_state, log, focus, quota, thVars>>
    /\ UNCHANGED homeVars
    /\ UNCHANGED <<netVars, recvVars, health>>

NextDisp == McpEndpoint \/ NewRequest

SpecDisp == InitDisp /\ [][NextDisp]_vars

(***************************************************************************)
(* Claims about the dispatcher, checked under SpecDisp                     *)
(***************************************************************************)
\* the id a parsed request object carries: jsonrpc_request.get('id')
RequestId == Get(request.json, "id", None)

ParsedObject == request.kind = "json" /\ request.json.t = "obj"

IsError(code) == "error" \in DOMAIN response /\ response.error.code = code

\* C7: when a registered tool's handler or a recognized resource's reader
\* raised an exception while serving the request (a rate-limit rejection
\* included), the response is an error with code -32603, its data is the
\* exception's message and its id is the request's id.
C7_HandlerFailureIs32603 ==
    \A i \in DOMAIN trace :
        trace[i].ev \in {"raise", "exit"}
            => /\ phase = "responded"
               /\ IsError(-32603)
               /\ "data" \in DOMAIN response.error
               /\ response.error.data = trace[i].arg
               /\ response.id = RequestId

\* C8: a response to a request whose body parsed to a JSON object carries
\* the id of that request, null when the request has none, whatever the
\* path that produced it (result, -32600, -32601, -32602, -32603).
C8_IdEchoed ==
    (phase = "responded" /\ ParsedObject) => response.id = RequestId

C8_Witness ==
    /\ phase = "responded"
    /\ ParsedObject
    /\ RequestId = JStr("abc")
    /\ IsError(-32603)
    /\ response.id = JStr("abc")

WellFormed(r) ==
    /\ "jsonrpc" \in DOMAIN r
    /\ r.jsonrpc = "2.0"
    /\ "id" \in DOMAIN r
    /\ ("result" \in DOMAIN r) # ("error" \in DOMAIN r)

\* C9: whatever the body, the method, the params and the outcome of the
\* handler, the endpoint answers the request with one well-formed envelope
\* (version tag "2.0", an id, exactly one of result and error) and lets no
\* exception out.
C9_AlwaysWellFormedEnvelope ==
    phase # "idle" => (phase = "responded" /\ WellFormed(response))

Unparsable == request.kind \in {"empty", "garbage"}

C10_Answer ==
    (phase # "idle" /\ Unparsable)
        => /\ phase = "responded"
           /\ IsError(-32700)
           /\ response.id = None
           /\ trace = <<>>

C10_Frame ==
    (phase = "idle" /\ request'.kind \in {"empty", "garbage"})
        => rate_limit_state' = rate_limit_state

\* C10: an empty body, or a body that is no JSON document, is answered with
\* error -32700 and id null; no handler, resource reader or rate-limit check
\* is invoked for it and the rate-limit state stays as it was.
C10_ParseError == []C10_Answer /\ [][C10_Frame]_vars

C10_Witness ==
    /\ phase = "responded"
    /\ request.kind = "garbage"
    /\ IsError(-32700)
    /\ response.id = None

\* C11: a body that is a JSON document but no object (array, string, number,
\* boolean, null) is answered with error -32600.
C11_NonObjectIs32600 ==
    (phase # "idle" /\ request.kind = "json" /\ request.json.t # "obj")
        => (phase = "responded" /\ IsError(-32600))

\* the fields handle_request reads from a parsed request object
RequestVersion == Get(request.json, "jsonrpc", None)
RequestMethod == Get(request.json, "method", None)

InvalidEnvelope ==
    ParsedObject /\ (~IsStr(RequestVersion, "2.0") \/ ~Truthy(RequestMethod))

\* C12: a request object whose jsonrpc is absent or not "2.0", or whose
\* method is missing or empty, is answered with error -32600 carrying the
\* request's id, whatever its method and params; no handler, reader or
\* rate-limit check runs for it.
C12_InvalidEnvelopeIs32600 ==
    (phase # "idle" /\ InvalidEnvelope)
        => /\ phase = "responded"
           /\ IsError(-32600)
           /\ response.id = RequestId
           /\ trace = <<>>

C12_Witness ==
    /\ phase = "responded"
    /\ ParsedObject
    /\ RequestVersion = JStr("1.0")
    /\ RequestMethod = JStr("tools/call")
    /\ request.json.params.t = "obj"
    /\ request.json.params.name = JStr("odoo_shell")
    /\ RequestId = JNum("1")
    /\ IsError(-32600)
    /\ response.id = JNum("1")

RecognizedMethods ==
    {"initialize", "tools/list", "tools/call", "resources/list", "resources/read"}

ValidEnvelope ==
    ParsedObject /\ IsStr(RequestVersion, "2.0") /\ Truthy(RequestMethod)

Recognized == RequestMethod.t = "str" /\ RequestMethod.v \in RecognizedMethods

\* C13: a valid envelope whose method is none of initialize, tools/list,
\* tools/call, resources/list, resources/read is answered with error -32601
\* carrying the request's id; a request for one of the five never is.
C13_UnknownMethodIs32601 ==
    (phase # "idle" /\ ValidEnvelope)
        => IF Recognized
           THEN ~IsError(-32601)
           ELSE /\ phase = "responded"
                /\ IsError(-32601)
                /\ response.id = RequestId

C13_Witness ==
    /\ phase = "responded"
    /\ ValidEnvelope
    /\ RequestMethod = JStr("nonexistent/method")
    /\ RequestId = JStr("abc")
    /\ IsError(-32601)
    /\ response.id = JStr("abc")

RequestParams == Get(request.json, "params", EmptyParams)

IsCall(method) == ValidEnvelope /\ IsStr(RequestMethod, method)

\* the request names no registered tool: params absent or null, no name, a
\* blank name, or a name that is no key of the registry
NoRegisteredTool ==
    \/ RequestParams.t = "null"
    \/ /\ RequestParams.t = "obj"
       /\ LET name == Get(RequestParams, "name", None)
          IN  ~(name.t = "str" /\ name.v \in ToolNames)

\* C14: a tools/call whose tool name is missing or blank (params absent or
\* null, no name, empty name) or names no registered tool is answered with
\* error -32602, and no handler runs.
C14_BadToolNameIs32602 ==
    (phase # "idle" /\ IsCall("tools/call") /\ NoRegisteredTool)
        => /\ phase = "responded"
           /\ IsError(-32602)
           /\ trace = <<>>

\* the fixed resource URIs and prefixes of resources/read
Recognizes(u) ==
    \/ u \in {"odoo://config", "odoo://modules", "odoo://system"}
    \/ StartsWithArea(u, "logs")
    \/ StartsWithArea(u, "schema")

NoRecognizedUri ==
    \/ RequestParams.t = "null"
    \/ /\ RequestParams.t = "obj"
       /\ LET uri == Get(RequestParams, "uri", None)
          IN  ~(uri.t = "str" /\ Recognizes(uri.v))

\* C15: a resources/read whose URI is missing or matches none of the fixed
\* URIs and prefixes is answered with error -32602, and no reader runs.
C15_BadUriIs32602 ==
    (phase # "idle" /\ IsCall("resources/read") /\ NoRecognizedUri)
        => /\ phase = "responded"
           /\ IsError(-32602)
           /\ trace = <<>>

IsResult == phase = "responded" /\ "result" \in DOMAIN response

\* the MIME type _handle_resources_read tags each resource with
MimeOf(u) == IF StartsWithArea(u, "logs") THEN "text/plain" ELSE "application/json"

C16_ToolContent ==
    (IsResult /\ IsCall("tools/call"))
        => response.result.content =
               <<[type |-> "text",
                  text |-> "\"result of " \o RequestParams.name.v \o "\""]>>

C16_ResourceContents ==
    (IsResult /\ IsCall("resources/read"))
        => /\ Len(response.result.contents) = 1
           /\ DOMAIN response.result.contents[1] = {"uri", "mimeType", "text"}
           /\ response.result.contents[1].uri = RequestParams.uri.v
           /\ response.result.contents[1].mimeType = MimeOf(RequestParams.uri.v)

\* C16: a successful tools/call carries result.content with exactly one
\* block of type "text" whose text is the JSON encoding of the handler's
\* result; a successful resources/read carries result.contents with exactly
\* one entry: the requested URI, the text produced and its MIME type.
C16_SuccessShape == C16_ToolContent /\ C16_ResourceContents

C16_Witness ==
    /\ IsResult
    /\ IsCall("resources/read")
    /\ RequestParams.uri = JStr("odoo://logs/odoo")
    /\ response.result.contents[1].mimeType = "text/plain"

\* the descriptors a tools/list response carries
ListedTools == response.result.tools

C17_OneDescriptorPerTool ==
    (IsResult /\ IsCall("tools/list"))
        => /\ \A n \in ToolNames :
                Cardinality({i \in DOMAIN ListedTools : ListedTools[i].name = n}) = 1
           /\ \A i \in DOMAIN ListedTools : ListedTools[i].name \in ToolNames

C17_ListedToolAccepted ==
    (/\ phase # "idle"
     /\ IsCall("tools/call")
     /\ RequestParams.t = "obj"
     /\ RequestParams.name.t = "str"
     /\ RequestParams.name.v \in ToolSchemaNames)
        => ~IsError(-32602)

\* C17: the names of get_tool_registry() and of get_tool_schemas() are the
\* same set: tools/list returns exactly one descriptor for each registered
\* tool and none for any other name, and a tools/call naming a listed tool
\* is never answered with -32602.
C17_RegistryMatchesSchemas ==
    /\ ToolNames = ToolSchemaNames
    /\ C17_OneDescriptorPerTool
    /\ C17_ListedToolAccepted

C17_Witness ==
    /\ IsResult
    /\ IsCall("tools/list")
    /\ \E i \in DOMAIN ListedTools : ListedTools[i].name = "upgrade_module"
    /\ Cardinality(DOMAIN ListedTools) = Cardinality(ToolNames)

\* the names test_contains_expected_tools expects in the registry
ExpectedTools ==
    {"execute_command", "query_database", "execute_sql", "get_db_schema",
     "read_file", "write_file", "odoo_shell", "service_status", "read_config",
     "list_modules", "get_module_info", "install_module", "upgrade_module",
     "register_receiver"}

\* C18: every expected tool name, register_receiver among them, is in the
\* registry, so a tools/call naming one is handed to its handler and never
\* answered with -32602 "Unknown tool".
C18_ExpectedToolsRegistered ==
    (/\ phase # "idle"
     /\ IsCall("tools/call")
     /\ RequestParams.t = "obj"
     /\ RequestParams.name.t = "str"
     /\ RequestParams.name.v \in ExpectedTools)
        => ~IsError(-32602)

(***************************************************************************)
(* SpecTool: registry.call_tool called directly, as the tests call it      *)
(***************************************************************************)
CallNames == ToolNames \cup {"unknown_tool", "register_receiver"}

CallParameters == {EmptyArguments, [t |-> "obj", v |-> "{...}"], None}

\* call_tool(env, tool_name, parameters) from the call to its return or raise
CallTool ==
    /\ phase = "idle"
    /\ \E name \in CallNames, parameters \in CallParameters, outcome \in Outcomes :
        LET ran == call_tool(rate_limit_state, now, focus.db, name, parameters, outcome)
        IN  /\ request' = [tool_name |-> name, parameters |-> parameters,
                           outcome |-> outcome]
            /\ response' = ran.r
            /\ rate_limit_state' = ran.state
            /\ trace' = ran.events
    /\ phase' = "returned"
    /\ UNCHANGED <<now, log, focus, quota, thVars>>
    /\ UNCHANGED homeVars
    /\ UNCHANGED <<netVars, recvVars, health>>

\* the caller has the result or the exception and goes on
Returns ==
    /\ phase = "returned"
    /\ phase' = "idle"
    /\ request' = EmptyDict
    /\ response' = EmptyDict
    /\ trace' = <<>>
    /\ UNCHANGED <<now, rate_limit_state, log, focus, quota, thVars>>
    /\ UNCHANGED homeVars
    /\ UNCHANGED <<netVars, recvVars, health>>

NextTool == CallTool \/ Returns

SpecTool == InitDisp /\ [][NextTool]_vars

HandlerRuns == {i \in DOMAIN trace : trace[i].ev = "handler"}

C19_OneHandler ==
    phase = "returned"
        => /\ Cardinality(HandlerRuns) <= 1
           /\ \A i \in HandlerRuns :
                /\ request.tool_name \in ToolNames
                /\ trace[i].arg = request.tool_name

C19_Step ==
    (phase = "idle" /\ phase' = "returned")
        => IF request'.tool_name \notin ToolNames
           THEN /\ response' = Raised("Unknown tool: " \o request'.tool_name)
                /\ trace' = <<>>
                /\ rate_limit_state' = rate_limit_state
           ELSE request'.parameters.t = "obj"
                    => LET h == RunHandler(rate_limit_state, now, focus.db,
                                           request'.tool_name, request'.parameters,
                                           request'.outcome)
                       IN  /\ response' = h.r
                           /\ rate_limit_state' = h.state
                           /\ trace' = h.events

\* C19: call_tool raises "Unknown tool" and runs no handler when the name is
\* not registered; otherwise it runs the handler registered under the name,
\* once, with the given arguments, and its result or exception is what
\* call_tool returns or raises.
C19_CallTool == []C19_OneHandler /\ [][C19_Step]_vars

C19_Witness ==
    /\ phase = "returned"
    /\ request.tool_name = "odoo_shell"
    /\ request.outcome.kind = "raise"
    /\ response = Raised("boom")
    /\ Cardinality(HandlerRuns) = 1

(***************************************************************************)
(* models/mcp_heartbeat.py: MCPHeartbeat._cron_send_heartbeat, one         *)
(* statement per step; the host may be renamed at any moment               *)
(***************************************************************************)
Hostnames == {"host-a", "host-b", "host-c"}

\* what str(bool) shows for the value register_server / send_heartbeat return
BoolText == {"True", "False"}

InitCron ==
    /\ now = 0
    /\ rate_limit_state = EmptyDict
    /\ log = <<>>
    /\ focus = EmptyDict
    /\ quota = EmptyDict
    /\ ThreadsIdle
    /\ phase = "idle"
    /\ request = EmptyDict
    /\ response = EmptyDict
    /\ trace = <<>>
    /\ hostname \in Hostnames
    /\ marker \in Hostnames \cup {""}
    /\ cron = [pc |-> "idle", current_hostname |-> "", last_hostname |-> "", result |-> FALSE]
    /\ sent = <<>>
    /\ NetIdle

CronFrame == UNCHANGED <<rlVars, focus, quota, thVars, dispVars, netVars, recvVars, health>>

hostname_changed_inverted(current_hostname, last_hostname) ==
    current_hostname = last_hostname

\* line 26
hostname_changed(current_hostname, last_hostname) ==
    current_hostname # last_hostname

\* line 22: current_hostname = socket.gethostname()
CronGetHostname ==
    /\ cron.pc = "idle"
    /\ cron' = [cron EXCEPT !.pc = "get_param", !.current_hostname = hostname]
    /\ sent' = <<>>
    /\ UNCHANGED <<hostname, marker>>
    /\ CronFrame

\* lines 23-24: last_hostname = ICP.get_param('mcp.last_hostname', default='')
CronGetParam ==
    /\ cron.pc = "get_param"
    /\ cron' = [cron EXCEPT !.pc = "compare", !.last_hostname = marker]
    /\ UNCHANGED <<hostname, marker, sent>>
    /\ CronFrame

\* line 26
CronCompare ==
    /\ cron.pc = "compare"
    /\ cron' = [cron EXCEPT !.pc = IF hostname_changed(cron.current_hostname,
                                                       cron.last_hostname)
                                   THEN "register" ELSE "heartbeat"]
    /\ UNCHANGED <<hostname, marker, sent>>
    /\ CronFrame

\* line 32: register_server(self.env); it returns a bool and raises nothing
CronRegister ==
    /\ cron.pc = "register"
    /\ \E ok \in BoolText : sent' = Append(sent, Event("register", ok))
    /\ cron' = [cron EXCEPT !.pc = "set_param"]
    /\ UNCHANGED <<hostname, marker>>
    /\ CronFrame

CronSetParamOnSuccess ==
    /\ cron.pc = "set_param"
    /\ marker' = IF Last(sent).arg = "True" THEN cron.current_hostname ELSE marker
    /\ sent' = Append(sent, Event("set_param", cron.current_hostname))
    /\ cron' = [cron EXCEPT !.pc = "heartbeat"]
    /\ UNCHANGED hostname
    /\ CronFrame

\* line 34: ICP.set_param('mcp.last_hostname', current_hostname)
CronSetParam ==
    /\ cron.pc = "set_param"
    /\ marker' = cron.current_hostname
    /\ sent' = Append(sent, Event("set_param", cron.current_hostname))
    /\ cron' = [cron EXCEPT !.pc = "heartbeat"]
    /\ UNCHANGED hostname
    /\ CronFrame

\* line 37: result = send_heartbeat(self.env)
CronHeartbeat ==
    /\ cron.pc = "heartbeat"
    /\ \E ok \in BoolText :
        /\ sent' = Append(sent, Event("heartbeat", ok))
        /\ cron' = [cron EXCEPT !.pc = "done", !.result = (ok = "True")]
    /\ UNCHANGED <<hostname, marker>>
    /\ CronFrame

\* line 40: return result; ir.cron calls again at the next interval
CronReturn ==
    /\ cron.pc = "done"
    /\ cron' = [cron EXCEPT !.pc = "idle"]
    /\ UNCHANGED <<hostname, marker, sent>>
    /\ CronFrame

\* the container is recreated or the host renamed
Rename ==
    /\ \E h \in Hostnames \ {hostname} : hostname' = h
    /\ UNCHANGED <<marker, cron, sent>>
    /\ CronFrame

NextCron ==
    \/ CronGetHostname
    \/ CronGetParam
    \/ CronCompare
    \/ CronRegister
    \/ CronSetParam
    \/ CronHeartbeat
    \/ CronReturn
    \/ Rename

SpecCron == InitCron /\ [][NextCron]_vars

\* what the tick did so far, by kind
Kinds == [i \in DOMAIN sent |-> sent[i].ev]

Mismatch == cron.current_hostname # cron.last_hostname

IsPrefix(s, full) == Len(s) <= Len(full) /\ \A i \in DOMAIN s : s[i] = full[i]

C20_Order ==
    /\ cron.pc \in {"register", "set_param", "heartbeat", "done"}
        => IF Mismatch
           THEN /\ IsPrefix(Kinds, <<"register", "set_param", "heartbeat">>)
                /\ Len(sent) >= 2 => sent[2].arg = cron.current_hostname
           ELSE IsPrefix(Kinds, <<"heartbeat">>)
    /\ cron.pc = "done"
        => Kinds = IF Mismatch
                   THEN <<"register", "set_param", "heartbeat">>
                   ELSE <<"heartbeat">>

C20_MarkerWrite ==
    marker' # marker
        => /\ Mismatch
           /\ Kinds = <<"register">>
           /\ marker' = cron.current_hostname

\* C20: on a heartbeat tick that finds the stored hostname marker different
\* from the live hostname, register_server is called and returns, then the
\* marker is set to the live hostname, then send_heartbeat is called; on a
\* tick that finds them equal, register_server is not called, the marker is
\* not written and send_heartbeat is called exactly once.
C20_RegisterBeforeHeartbeat == []C20_Order /\ [][C20_MarkerWrite]_vars

C20_Witness ==
    /\ cron.pc = "done"
    /\ cron.last_hostname = "host-a"
    /\ cron.current_hostname = "host-b"
    /\ marker = "host-b"
    /\ Kinds = <<"register", "set_param", "heartbeat">>

(***************************************************************************)
(* Phone-home client: services/phone_home.py                               *)
(***************************************************************************)
MaxRetryCount == 4

DefaultRetryCount == 3

DefaultTimeout == 5

DefaultPort == 8768

\* env.cr.dbname
dbname == "db1"

\* the ir.config_parameter keys read at lines 115, 126, 127 and 75
UrlKey == "mcp.phone_home_url"

RetryKey == "mcp.phone_home_retry_count"

TimeoutKey == "mcp.phone_home_timeout"

PortKey == "mcp.server_port"

\* the integers the configuration below can spell
IntRange == (-1..MaxRetryCount) \cup {DefaultRetryCount, DefaultTimeout, DefaultPort}

\* ICP.get_param(key, default=...): the stored text, the default when the
\* parameter was never set or is empty
get_param(key, default) ==
    IF key \in DOMAIN config /\ config[key] # "" THEN config[key] ELSE default

\* int(text): the number a decimal text spells, ValueError for any other text
int(text) ==
    IF \E i \in IntRange : ToString(i) = text
    THEN Returned(CHOOSE i \in IntRange : ToString(i) = text)
    ELSE Raised("ValueError")

rstrip_nothing(url) == url

\* phone_home_url.rstrip('/')
rstrip(url) == IF url = "http://receiver/" THEN "http://receiver" ELSE url

\* lines 60-100 and 122-123, 184-189: the fields the receiver keys and merges on
\* (started_at and timestamp are the moment the payload is built)
build_payload(fn) ==
    LET port == int(get_param(PortKey, ToString(DefaultPort)))
        common == [server_id |-> <<dbname, hostname>>,
                   hostname |-> hostname,
                   capabilities |-> ToolSchemaNames]
    IN  IF port.raised THEN port
        ELSE IF fn = "register_server"
        THEN Returned([f \in DOMAIN common \cup {"started_at"} |->
                        IF f = "started_at" THEN Len(posts) ELSE common[f]])
        ELSE Returned([f \in DOMAIN common \cup {"status", "timestamp"} |->
                        IF f = "status" THEN "healthy"
                        ELSE IF f = "timestamp" THEN Len(posts) ELSE common[f]])

Callers == {"main"}

Functions == {"register_server", "send_heartbeat"}

\* the frame of a function that was just called
NewCall(fn) ==
    [fn |-> fn, pc |-> "start", phone_home_url |-> "", payload |-> EmptyDict,
     retry_count |-> 0, timeout |-> 0, attempt |-> 0, result |-> FALSE]

Return(call, value) == [call EXCEPT !.pc = "returned", !.result = value]

outer_except_reraise(call) == [call EXCEPT !.pc = "raised"]

\* lines 161-163 and 209-211: except Exception: log, return False
outer_except(call) == Return(call, FALSE)

success_status_2xx(status) == status \in {"200", "201", "202", "204"}

\* lines 139 and 202: response.status_code in [200, 201]
success_status(status) == status \in {"200", "201"}

not_empty_only(value) == value = ""

\* lines 117 and 180: `not phone_home_url` holds of False and of the empty text
not(value) == value \in {ToString(FALSE), ""}

\* what the frame of the rest of the system looks like to the client
ClientFrame ==
    UNCHANGED <<rlVars, focus, quota, thVars, dispVars, homeVars, servers_lock, recv, health>>

\* lines 114-130 and 177-194: the URL check, the payload, the retry count and
\* the timeout, up to the first round of the for loop
Prepare(c) ==
    /\ regs[c].pc = "start"
    /\ LET fn == regs[c].fn
           url == get_param(UrlKey, ToString(FALSE))
           built == build_payload(fn)
           retry_count == IF fn = "register_server"
                          THEN int(get_param(RetryKey, ToString(DefaultRetryCount)))
                          ELSE Returned(1)
           timeout == int(get_param(TimeoutKey, ToString(DefaultTimeout)))
       IN  regs' = [regs EXCEPT ![c] =
                IF not(url) THEN Return(@, FALSE)
                ELSE IF built.raised \/ retry_count.raised \/ timeout.raised
                THEN outer_except(@)
                ELSE [@ EXCEPT !.pc = IF 0 < retry_count.value THEN "post" ELSE "returned",
                               !.phone_home_url = url,
                               !.payload = built.value,
                               !.retry_count = retry_count.value,
                               !.timeout = timeout.value]]
    /\ UNCHANGED <<config, posts, sleeps, servers>>
    /\ ClientFrame

Statuses == {"200", "201", "204", "400", "500"}

\* the outcomes of one requests.post: the receiver handled the request or never
\* saw it, and the client got a status or an exception; requests refuses a
\* timeout that is not positive before sending anything
PostOutcomes(timeout) ==
    {o \in [received : BOOLEAN, status : Statuses \cup {"error"}] :
        /\ o.status \in {"200", "201"} => o.received
        /\ timeout <= 0 => (~o.received /\ o.status = "error")}

receiver_register_keep_first(svs, data, t) ==
    IF data.server_id \in DOMAIN svs THEN svs
    ELSE DictSet(svs, data.server_id,
                 [f \in DOMAIN data \cup {"registered_at", "last_seen", "heartbeat_count"} |->
                    IF f \in {"registered_at", "last_seen"} THEN t
                    ELSE IF f = "heartbeat_count" THEN 0 ELSE data[f]])

\* receiver/server.py lines 50-62: the record /register stores, replacing any
\* earlier one of the same id
receiver_register(svs, data, t) ==
    LET meta == [registered_at |-> t, last_seen |-> t, heartbeat_count |-> 0]
        server_record == [f \in DOMAIN data \cup DOMAIN meta |->
                            IF f \in DOMAIN meta THEN meta[f] ELSE data[f]]
    IN  DictSet(svs, data.server_id, server_record)

\* receiver/server.py lines 81-94: what /heartbeat does to the stored records
receiver_heartbeat(svs, data, t) ==
    LET server_id == data.server_id
    IN  IF server_id \notin DOMAIN svs
        THEN DictSet(svs, server_id,
                     [server_id |-> server_id, last_seen |-> t, heartbeat_count |-> 1])
        ELSE [svs EXCEPT ![server_id] =
                [@ EXCEPT !.last_seen = t, !.heartbeat_count = @ + 1]]

\* lines 132-148 and 192-207: one requests.post and what the function makes of it
PostWith(c, outcomes) ==
    /\ regs[c].pc = "post"
    /\ \E o \in outcomes :
        LET call == regs[c]
            path == IF call.fn = "register_server" THEN "/register" ELSE "/heartbeat"
        IN  /\ posts' = Append(posts,
                    [caller |-> c, url |-> <<rstrip(call.phone_home_url), path>>,
                     attempt |-> call.attempt, payload |-> call.payload,
                     received |-> o.received, status |-> o.status])
            /\ servers' = IF ~o.received THEN servers
                          ELSE IF path = "/register"
                          THEN receiver_register(servers, call.payload, Len(posts))
                          ELSE receiver_heartbeat(servers, call.payload, Len(posts))
            /\ regs' = [regs EXCEPT ![c] =
                    IF o.status # "error" /\ success_status(o.status) THEN Return(@, TRUE)
                    ELSE IF call.fn = "register_server" THEN [@ EXCEPT !.pc = "backoff"]
                    ELSE Return(@, FALSE)]
    /\ UNCHANGED <<config, sleeps>>
    /\ ClientFrame

\* a post to whatever answers at the configured URL
Post(c) == PostWith(c, PostOutcomes(regs[c].timeout))

\* a post to the receiver of this repository: it answers /register with 201
\* and /heartbeat with 200 (receiver/server.py lines 67 and 102), and the
\* request or its answer can be lost on the way
ReceiverPost(c) ==
    PostWith(c, {o \in PostOutcomes(regs[c].timeout) :
                    o.status \in {IF regs[c].fn = "register_server" THEN "201" ELSE "200",
                                  "error"}})

backoff_every_attempt(attempt, retry_count) == TRUE

\* line 154
backoff_due(attempt, retry_count) == attempt < retry_count - 1

\* line 155
backoff(attempt) == 2 ^ attempt

\* lines 153-159: the sleep, then the next round of the for loop or, after the
\* last round, return False
Backoff(c) ==
    /\ regs[c].pc = "backoff"
    /\ sleeps' = IF backoff_due(regs[c].attempt, regs[c].retry_count)
                 THEN Append(sleeps, [caller |-> c, after |-> regs[c].attempt,
                                      seconds |-> backoff(regs[c].attempt)])
                 ELSE sleeps
    /\ regs' = [regs EXCEPT ![c] =
            IF regs[c].attempt + 1 < regs[c].retry_count
            THEN [@ EXCEPT !.pc = "post", !.attempt = @ + 1]
            ELSE Return(@, FALSE)]
    /\ UNCHANGED <<config, posts, servers>>
    /\ ClientFrame

(***************************************************************************)
(* SpecReg: one call of register_server or send_heartbeat under every      *)
(* configuration and every network outcome                                 *)
(***************************************************************************)
Unset == "<unset>"

UrlChoices == {Unset, "", "http://receiver", "http://receiver/"}

RetryChoices == {ToString(i) : i \in -1..MaxRetryCount} \cup {Unset, "abc"}

TimeoutChoices == {Unset, "0", "abc", "5"}

PortChoices == {Unset, "abc"}

\* the ir.config_parameter tables: each parameter set to a text or never set
Configurations ==
    {LET full == [k \in {UrlKey, RetryKey, TimeoutKey, PortKey} |->
                    CASE k = UrlKey -> u [] k = RetryKey -> r
                      [] k = TimeoutKey -> t [] OTHER -> p]
     IN  [k \in {x \in DOMAIN full : full[x] # Unset} |-> full[k]] :
        u \in UrlChoices, r \in RetryChoices, t \in TimeoutChoices, p \in PortChoices}

InitReg ==
    /\ now = 0
    /\ rate_limit_state = EmptyDict
    /\ log = <<>>
    /\ focus = EmptyDict
    /\ quota = EmptyDict
    /\ ThreadsIdle
    /\ DispatcherIdle
    /\ HomeIdle
    /\ config \in Configurations
    /\ regs = EmptyDict
    /\ posts = <<>>
    /\ sleeps = <<>>
    /\ servers = EmptyDict
    /\ servers_lock = ""
    /\ recv = EmptyDict
    /\ health = EmptyDict

\* a caller enters register_server or send_heartbeat
Invoke ==
    /\ regs = EmptyDict
    /\ \E c \in Callers, fn \in Functions : regs' = DictSet(regs, c, NewCall(fn))
    /\ UNCHANGED <<config, posts, sleeps, servers>>
    /\ ClientFrame

NextReg ==
    \/ Invoke
    \/ \E c \in DOMAIN regs : Prepare(c)
    \/ \E c \in DOMAIN regs : Post(c)
    \/ \E c \in DOMAIN regs : Backoff(c)

SpecReg == InitReg /\ [][NextReg]_vars

RegTypeOK == \A c \in DOMAIN regs : regs[c].pc # "raised"

\* the requests.post calls a caller made, in order
PostsOf(c) == SelectSeq(posts, LAMBDA p : p.caller = c)

SleepsOf(c) == SelectSeq(sleeps, LAMBDA s : s.caller = c)

Answered200or201(p) == p.status \in {"200", "201"}

\* register_server calls that read a retry count R >= 1
Retrying(c) == regs[c].fn = "register_server" /\ regs[c].retry_count >= 1

Pow2(a) == IF a = 0 THEN 1 ELSE IF a = 1 THEN 2 ELSE IF a = 2 THEN 4 ELSE 8

\* C22: after a failed attempt number a (0-based) of register_server that is
\* not the last allowed attempt it sleeps exactly 2^a seconds before the next
\* attempt; it never sleeps after the final attempt nor after a successful
\* attempt, so a run with n attempts contains exactly n-1 sleeps.
C22_BackoffSchedule ==
    \A c \in DOMAIN regs : Retrying(c) =>
        LET P == PostsOf(c)
            S == SleepsOf(c)
            n == Len(P)
            R == regs[c].retry_count
        IN  /\ \A j \in 1..Len(S) :
                /\ S[j].after = j - 1
                /\ S[j].seconds = Pow2(j - 1)
                /\ j <= n /\ ~Answered200or201(P[j])
                /\ j - 1 < R - 1
            /\ regs[c].pc = "post" => Len(S) = n /\ regs[c].attempt = n
            /\ regs[c].pc = "backoff" => Len(S) = n - 1
            /\ (regs[c].pc = "returned" /\ n >= 1) => Len(S) = n - 1

C22_Witness ==
    /\ "main" \in DOMAIN regs
    /\ Retrying("main")
    /\ regs["main"].pc = "returned"
    /\ ~regs["main"].result
    /\ Len(posts) = 4
    /\ Len(sleeps) = 3
    /\ sleeps[3].seconds = 4

\* C23: register_server and send_heartbeat never raise: under every
\* configuration value (missing, zero, negative or non-numeric retry count or
\* timeout), every payload-building failure and every network outcome the call
\* runs on to a return, returns a boolean, and returns false whenever it did
\* not receive a success status.
C23_NeverRaises ==
    \A c \in DOMAIN regs :
        /\ regs[c].pc # "raised"
        /\ regs[c].pc # "returned" => ENABLED NextReg
        /\ regs[c].pc = "returned" =>
            /\ regs[c].result \in BOOLEAN
            /\ regs[c].result =>
                /\ PostsOf(c) # <<>>
                /\ Answered200or201(Last(PostsOf(c)))

C23_Witness ==
    /\ "main" \in DOMAIN regs
    /\ regs["main"].fn = "register_server"
    /\ DOMAIN config = {UrlKey, RetryKey}
    /\ config[UrlKey] = "http://receiver"
    /\ config[RetryKey] = "abc"
    /\ regs["main"].pc = "returned"
    /\ regs["main"].result = FALSE
    /\ posts = <<>>

Unconfigured == UrlKey \notin DOMAIN config \/ config[UrlKey] = ""

\* C24: when no receiver URL is configured (parameter absent or empty),
\* register_server and send_heartbeat each return false and make zero
\* outbound requests and zero sleeps.
C24_NoUrlNoOp ==
    Unconfigured =>
        /\ posts = <<>>
        /\ sleeps = <<>>
        /\ \A c \in DOMAIN regs :
            /\ regs[c].pc \in {"start", "returned"}
            /\ regs[c].pc = "returned" => regs[c].result = FALSE

C24_Witness ==
    /\ UrlKey \notin DOMAIN config
    /\ "main" \in DOMAIN regs
    /\ regs["main"].fn = "send_heartbeat"
    /\ regs["main"].pc = "returned"
    /\ regs["main"].result = FALSE

\* send_heartbeat calls that got past the URL check
Beating(c) == regs[c].fn = "send_heartbeat" /\ ~Unconfigured

Status2xx(p) == p.status \in {"200", "201", "202", "204"}

HeartbeatPosts(c) ==
    LET P == PostsOf(c)
    IN  /\ Len(P) <= 1
        /\ \A i \in 1..Len(P) : P[i].url = <<"http://receiver", "/heartbeat">>
        /\ SleepsOf(c) = <<>>
        /\ regs[c].pc = "returned" =>
            \/ Len(P) = 1
            \/ /\ Len(P) = 0
               /\ ~regs[c].result
               /\ \/ int(get_param(PortKey, ToString(DefaultPort))).raised
                  \/ int(get_param(TimeoutKey, ToString(DefaultTimeout))).raised

MaxReactors == 2

HealthIds == <<"check1", "check2", "check3">>

\* heartbeat ticks that ran to their end: each posted its one heartbeat
TicksDone ==
    Len(SelectSeq(posts, LAMBDA p : p.caller = "cron" /\ p.url[2] = "/heartbeat"))
        - (IF cron.pc = "done" THEN 1 ELSE 0)

\* health checks and ticks started so far
Reactors ==
    Cardinality(DOMAIN health) + TicksDone + (IF cron.pc # "idle" THEN 1 ELSE 0)

HomeFrame ==
    UNCHANGED <<rlVars, focus, quota, thVars, dispVars, hostname, config, posts, sleeps, recvVars>>

InitHome ==
    /\ now = 0
    /\ rate_limit_state = EmptyDict
    /\ log = <<>>
    /\ focus = EmptyDict
    /\ quota = EmptyDict
    /\ ThreadsIdle
    /\ DispatcherIdle
    /\ hostname = "host-b"
    /\ marker \in {"", "host-a", "host-b"}
    /\ cron = [pc |-> "idle", current_hostname |-> "", last_hostname |-> "", result |-> FALSE]
    /\ sent = <<>>
    /\ config \in {c \in Configurations :
                    /\ DOMAIN c = {UrlKey, RetryKey}
                    /\ c[UrlKey] = "http://receiver/"
                    /\ c[RetryKey] \in {"1", "2"}}
    /\ regs = EmptyDict
    /\ posts = <<>>
    /\ sleeps = <<>>
    /\ servers = EmptyDict
    /\ servers_lock = ""
    /\ recv = EmptyDict
    /\ health = EmptyDict

\* mcp_endpoint.py lines 102-118: a GET /mcp/v1/health arrives and reads the
\* live hostname
HealthRequest ==
    /\ Reactors < MaxReactors
    /\ Cardinality(DOMAIN health) < Len(HealthIds)
    /\ health' = DictSet(health, HealthIds[Cardinality(DOMAIN health) + 1],
                    [pc |-> "get_param", current_hostname |-> hostname,
                     last_hostname |-> "", thread |-> "none", response |-> EmptyDict])
    /\ UNCHANGED <<marker, cron, sent, regs>>
    /\ HomeFrame

\* lines 119-121
HealthGetParam(h) ==
    /\ health[h].pc = "get_param"
    /\ health' = [health EXCEPT ![h] = [@ EXCEPT !.pc = "compare", !.last_hostname = marker]]
    /\ UNCHANGED <<marker, cron, sent, regs>>
    /\ HomeFrame

HealthCompareAlways(h) ==
    /\ health[h].pc = "compare"
    /\ health' = [health EXCEPT ![h] = [@ EXCEPT !.pc = "respond", !.thread = "started"]]
    /\ UNCHANGED <<marker, cron, sent, regs>>
    /\ HomeFrame

\* lines 123-135: on a mismatch a daemon thread is started and not joined
HealthCompare(h) ==
    /\ health[h].pc = "compare"
    /\ health' = [health EXCEPT ![h] =
            [@ EXCEPT !.pc = "respond",
                      !.thread = IF hostname_changed(health[h].current_hostname,
                                                     health[h].last_hostname)
                                 THEN "started" ELSE "none"]]
    /\ UNCHANGED <<marker, cron, sent, regs>>
    /\ HomeFrame

\* lines 137-141
HealthRespond(h) ==
    /\ health[h].pc = "respond"
    /\ health' = [health EXCEPT ![h] =
            [@ EXCEPT !.pc = "done",
                      !.response = [status |-> 200, body |-> [status |-> "healthy"]]]]
    /\ UNCHANGED <<marker, cron, sent, regs>>
    /\ HomeFrame

\* line 129: the thread enters register_server(env)
TaskRegister(h) ==
    /\ health[h].thread = "started"
    /\ health' = [health EXCEPT ![h] = [@ EXCEPT !.thread = "registering"]]
    /\ regs' = DictSet(regs, h, NewCall("register_server"))
    /\ UNCHANGED <<marker, cron, sent>>
    /\ HomeFrame

set_param_live_hostname(current_hostname) == hostname

\* lines 34 (mcp_heartbeat.py) and 130 (mcp_endpoint.py): the value written is
\* the hostname read at the start
set_param_value(current_hostname) == current_hostname

TaskSetParamBeforeRegister(h) ==
    /\ health[h].thread = "registering"
    /\ marker' = set_param_value(health[h].current_hostname)
    /\ health' = [health EXCEPT ![h] = [@ EXCEPT !.thread = "done"]]
    /\ UNCHANGED <<cron, sent, regs>>
    /\ HomeFrame

\* line 130: ICP.set_param('mcp.last_hostname', current_hostname), the thread ends
TaskSetParam(h) ==
    /\ health[h].thread = "registering"
    /\ regs[h].pc = "returned"
    /\ marker' = set_param_value(health[h].current_hostname)
    /\ health' = [health EXCEPT ![h] = [@ EXCEPT !.thread = "done"]]
    /\ UNCHANGED <<cron, sent, regs>>
    /\ HomeFrame

\* mcp_heartbeat.py lines 21-22, the tick starts
TickStart ==
    /\ Reactors < MaxReactors
    /\ CronGetHostname

BoolTextOf(b) == IF b THEN "True" ELSE "False"

\* mcp_heartbeat.py line 32, entering register_server
CronCallRegister ==
    /\ cron.pc = "register"
    /\ cron' = [cron EXCEPT !.pc = "registering"]
    /\ regs' = DictSet(regs, "cron", NewCall("register_server"))
    /\ UNCHANGED <<marker, sent, health>>
    /\ HomeFrame

\* mcp_heartbeat.py line 32, register_server returned
CronRegisterReturns ==
    /\ cron.pc = "registering"
    /\ regs["cron"].pc = "returned"
    /\ cron' = [cron EXCEPT !.pc = "set_param"]
    /\ sent' = Append(sent, Event("register", BoolTextOf(regs["cron"].result)))
    /\ UNCHANGED <<marker, regs, health>>
    /\ HomeFrame

\* mcp_heartbeat.py line 37, entering send_heartbeat
CronCallHeartbeat ==
    /\ cron.pc = "heartbeat"
    /\ cron' = [cron EXCEPT !.pc = "beating"]
    /\ regs' = DictSet(regs, "cron", NewCall("send_heartbeat"))
    /\ UNCHANGED <<marker, sent, health>>
    /\ HomeFrame

\* mcp_heartbeat.py line 37, send_heartbeat returned
CronHeartbeatReturns ==
    /\ cron.pc = "beating"
    /\ regs["cron"].pc = "returned"
    /\ cron' = [cron EXCEPT !.pc = "done", !.result = regs["cron"].result]
    /\ sent' = Append(sent, Event("heartbeat", BoolTextOf(regs["cron"].result)))
    /\ UNCHANGED <<marker, regs, health>>
    /\ HomeFrame

NextHome ==
    \/ HealthRequest
    \/ \E h \in DOMAIN health : HealthGetParam(h)
    \/ \E h \in DOMAIN health : HealthCompare(h)
    \/ \E h \in DOMAIN health : HealthRespond(h)
    \/ \E h \in DOMAIN health : TaskRegister(h)
    \/ \E h \in DOMAIN health : TaskSetParam(h)
    \/ TickStart
    \/ CronGetParam
    \/ CronCompare
    \/ CronCallRegister
    \/ CronRegisterReturns
    \/ CronSetParam
    \/ CronCallHeartbeat
    \/ CronHeartbeatReturns
    \/ CronReturn
    \/ \E c \in DOMAIN regs : Prepare(c)
    \/ \E c \in DOMAIN regs : ReceiverPost(c)
    \/ \E c \in DOMAIN regs : Backoff(c)

SpecHome == InitHome /\ [][NextHome]_vars

HomeTypeOK == marker \in {"", "host-a", "host-b"}

\* what health check h saw
Differs(h) == health[h].current_hostname # health[h].last_hostname

TaskRunning(h) == health[h].thread \in {"started", "registering"}

C26_State ==
    \A h \in DOMAIN health :
        /\ health[h].pc = "respond" => ENABLED HealthRespond(h)
        /\ health[h].pc \in {"respond", "done"} =>
            IF Differs(h) THEN health[h].thread # "none" ELSE health[h].thread = "none"
        /\ health[h].pc \in {"get_param", "compare"} => health[h].thread = "none"
        /\ health[h].pc = "done" =>
            /\ health[h].response.status = 200
            /\ health[h].response.body.status = "healthy"
        /\ (h \in DOMAIN regs) <=> health[h].thread \in {"registering", "done"}
        /\ health[h].thread = "done" => regs[h].pc = "returned"

C26_Step ==
    /\ \A h \in DOMAIN health :
        (health[h].thread # "done" /\ health'[h].thread = "done")
            => /\ regs[h].fn = "register_server"
               /\ regs[h].pc = "returned"
               /\ marker' = health[h].current_hostname
    /\ marker' # marker
            => \/ cron.pc = "set_param" /\ cron'.pc = "heartbeat"
               \/ \E h \in DOMAIN health :
                    Differs(h) /\ health[h].thread = "registering" /\ health'[h].thread = "done"

\* C26: a health check that finds the stored marker different from the live
\* hostname (a never-set marker reads as the empty text) starts exactly one
\* background task and answers without waiting for it; the task calls
\* register_server and only after it returned persists the hostname the
\* health check read; the answer is 'healthy' whatever the registration does.
\* A health check that finds them equal starts no task and writes no marker.
C26_BackgroundRegistration == []C26_State /\ [][C26_Step]_vars

C26_Witness ==
    /\ "check1" \in DOMAIN health
    /\ health["check1"].pc = "done"
    /\ health["check1"].response.body.status = "healthy"
    /\ health["check1"].last_hostname = ""
    /\ health["check1"].thread = "registering"
    /\ regs["check1"].pc = "backoff"
    /\ marker = ""

\* every health check answered, every background task ended, no tick running
AllFinished ==
    /\ cron.pc \in {"idle", "done"}
    /\ \A h \in DOMAIN health : health[h].pc = "done" /\ ~TaskRunning(h)

\* the server id of the live hostname
LiveId == <<dbname, hostname>>

\* the /register requests the receiver got for the live id, in order
RegistersReceived ==
    SelectSeq(posts, LAMBDA p : p.received /\ p.url[2] = "/register"
                                  /\ p.payload.server_id = LiveId)

\* the health checks and ticks that found the marker different from the live hostname
ReactedChecks == {h \in DOMAIN health : health[h].thread # "none"}

\* C27: under every interleaving of health-check background tasks and
\* heartbeat ticks reacting to the same hostname change, once all of them have
\* finished the receiver holds exactly one record for the server id, equal to
\* the payload of the last /register it received for that id, and the stored
\* marker equals the live hostname.
C27_DuplicateRegistrationSafe ==
    (AllFinished /\ Reactors >= 1) =>
        /\ marker = hostname
        /\ DOMAIN servers \subseteq {LiveId}
        /\ RegistersReceived # <<>> =>
            /\ LiveId \in DOMAIN servers
            /\ LET payload == Last(RegistersReceived).payload
               IN  /\ DOMAIN servers[LiveId] =
                        DOMAIN payload \cup {"registered_at", "last_seen", "heartbeat_count"}
                   /\ \A f \in DOMAIN payload : servers[LiveId][f] = payload[f]

C27_Witness ==
    /\ AllFinished
    /\ ReactedChecks = {"check1"}
    /\ Len(RegistersReceived) = 2
    /\ RegistersReceived[1].caller = "cron"
    /\ RegistersReceived[2].caller = "check1"
    /\ RegistersReceived[1].payload # RegistersReceived[2].payload
    /\ servers[LiveId].started_at = RegistersReceived[2].payload.started_at
    /\ marker = hostname

\* the health checks whose task entered register_server
ChecksRegistered == {h \in DOMAIN health : health[h].thread \in {"registering", "done"}}

\* the running or last tick entered register_server
CronRegistered == cron.pc = "registering" \/ \E i \in DOMAIN sent : sent[i].ev = "register"

\* C28 as stated: for one change of the live hostname, over any sequence of
\* health checks and heartbeat ticks (including health checks that arrive
\* while an earlier registration is still retrying), register_server is
\* invoked at most once.
C28_RegisterAtMostOnce ==
    Cardinality(ChecksRegistered) + (IF CronRegistered THEN 1 ELSE 0) <= 1

\* c enters register_server in this step
Invokes(c) ==
    /\ c \in DOMAIN regs'
    /\ regs'[c] = NewCall("register_server")
    /\ c \notin DOMAIN regs \/ regs[c] # regs'[c]

C28_Step ==
    /\ \A h \in DOMAIN health :
        Invokes(h) => /\ h \notin DOMAIN regs
                      /\ Differs(h)
                      /\ health[h].last_hostname # hostname
    /\ Invokes("cron") => /\ ~CronRegistered
                          /\ Mismatch
                          /\ cron.last_hostname # hostname
    /\ \A c \in DOMAIN regs' : Invokes(c) => c = "cron" \/ c \in DOMAIN health

\* C28 amended: for one change of the live hostname, register_server is
\* invoked at most once by each health check and each heartbeat tick, and only
\* by one that read the stored marker before the live hostname was persisted
\* in it; health checks and ticks that overlap an earlier registration each
\* invoke it again.
C28_OncePerReactor ==
    /\ [](\A h \in ChecksRegistered : Differs(h) /\ h \in DOMAIN regs)
    /\ [][C28_Step]_vars

C28_Witness ==
    /\ ChecksRegistered = {"check1", "check2"}
    /\ regs["check1"].pc = "backoff"
    /\ regs["check2"].pc = "start"
    /\ health["check2"].last_hostname = "host-a"

(***************************************************************************)
(* SpecRecv: the receiver's /register and /heartbeat handlers, one thread  *)
(* per request, sharing servers under servers_lock                         *)
(***************************************************************************)
MaxRequests == 3

ThreadIds == [i \in 1..MaxRequests |-> ToString(i)]

ServerIds == {"db1_host-a", "db1_host-b"}

\* request bodies: none, one without server_id, slim ones and ones with a hostname
DataChoices ==
    {EmptyDict, [hostname |-> "host-a"]}
        \cup [server_id : ServerIds]
        \cup [server_id : ServerIds, hostname : {"host-a", "host-b"}]

InitRecv ==
    /\ now = 0
    /\ rate_limit_state = EmptyDict
    /\ log = <<>>
    /\ focus = EmptyDict
    /\ quota = EmptyDict
    /\ ThreadsIdle
    /\ DispatcherIdle
    /\ HomeIdle
    /\ NetIdle

RecvFrame ==
    UNCHANGED <<rlVars, focus, quota, thVars, dispVars, homeVars, netVars, health>>

\* the threads that have left the lock, and the position t left it at
Left == {t \in DOMAIN recv : recv[t].order > 0}

\* get_current_timestamp(): a clock that never runs backwards
get_current_timestamp == Cardinality(DOMAIN recv)

\* lines 42-59 and 73-81: request.get_json() and the two 400 answers
Receive ==
    /\ Cardinality(DOMAIN recv) < MaxRequests
    /\ \E route \in {"/register", "/heartbeat"}, data \in DataChoices :
        recv' = DictSet(recv, ThreadIds[Cardinality(DOMAIN recv) + 1],
            [route |-> route, data |-> data, now |-> get_current_timestamp,
             loaded |-> 0, order |-> 0, heartbeat_count |-> 0,
             pc |-> IF data = EmptyDict \/ "server_id" \notin DOMAIN data
                    THEN "done" ELSE "acquire",
             status |-> IF data = EmptyDict \/ "server_id" \notin DOMAIN data
                        THEN 400 ELSE 0])
    /\ UNCHANGED <<servers, servers_lock>>
    /\ RecvFrame

AcquireUnlocked(t) ==
    /\ recv[t].pc = "acquire"
    /\ recv' = [recv EXCEPT ![t] = [@ EXCEPT !.pc = "locked"]]
    /\ UNCHANGED <<servers, servers_lock>>
    /\ RecvFrame

\* lines 61 and 83: with servers_lock
Acquire(t) ==
    /\ recv[t].pc = "acquire"
    /\ servers_lock = ""
    /\ servers_lock' = t
    /\ recv' = [recv EXCEPT ![t] = [@ EXCEPT !.pc = "locked"]]
    /\ UNCHANGED servers
    /\ RecvFrame

\* line 62: servers[server_id] = server_record
RegisterStore(t) ==
    /\ recv[t].pc = "locked"
    /\ recv[t].route = "/register"
    /\ servers' = receiver_register(servers, recv[t].data, recv[t].now)
    /\ recv' = [recv EXCEPT ![t] = [@ EXCEPT !.pc = "release"]]
    /\ UNCHANGED servers_lock
    /\ RecvFrame

\* lines 84-93: the minimal entry of an unknown server, last_seen of a known one
HeartbeatTouch(t) ==
    /\ recv[t].pc = "locked"
    /\ recv[t].route = "/heartbeat"
    /\ LET server_id == recv[t].data.server_id
       IN  IF server_id \notin DOMAIN servers
           THEN /\ servers' = receiver_heartbeat(servers, recv[t].data, get_current_timestamp)
                /\ recv' = [recv EXCEPT ![t] = [@ EXCEPT !.pc = "read"]]
           ELSE /\ servers' = [servers EXCEPT ![server_id] =
                                [@ EXCEPT !.last_seen = get_current_timestamp]]
                /\ recv' = [recv EXCEPT ![t] = [@ EXCEPT !.pc = "load"]]
    /\ UNCHANGED servers_lock
    /\ RecvFrame

\* line 94, the read of servers[server_id]['heartbeat_count'] += 1
HeartbeatLoad(t) ==
    /\ recv[t].pc = "load"
    /\ recv[t].data.server_id \in DOMAIN servers
    /\ recv' = [recv EXCEPT ![t] =
            [@ EXCEPT !.pc = "store",
                      !.loaded = servers[recv[t].data.server_id].heartbeat_count]]
    /\ UNCHANGED <<servers, servers_lock>>
    /\ RecvFrame

\* line 94, the write of servers[server_id]['heartbeat_count'] += 1
HeartbeatStore(t) ==
    /\ recv[t].pc = "store"
    /\ recv[t].data.server_id \in DOMAIN servers
    /\ servers' = [servers EXCEPT ![recv[t].data.server_id] =
                        [@ EXCEPT !.heartbeat_count = recv[t].loaded + 1]]
    /\ recv' = [recv EXCEPT ![t] = [@ EXCEPT !.pc = "read"]]
    /\ UNCHANGED servers_lock
    /\ RecvFrame

\* line 96
HeartbeatRead(t) ==
    /\ recv[t].pc = "read"
    /\ recv[t].data.server_id \in DOMAIN servers
    /\ recv' = [recv EXCEPT ![t] =
            [@ EXCEPT !.pc = "release",
                      !.heartbeat_count = servers[recv[t].data.server_id].heartbeat_count]]
    /\ UNCHANGED <<servers, servers_lock>>
    /\ RecvFrame

\* the end of the with block and the answer: lines 64-67 and 98-102
Release(t) ==
    /\ recv[t].pc = "release"
    /\ servers_lock' = ""
    /\ recv' = [recv EXCEPT ![t] =
            [@ EXCEPT !.pc = "done",
                      !.order = Cardinality(Left) + 1,
                      !.status = IF recv[t].route = "/register" THEN 201 ELSE 200]]
    /\ UNCHANGED servers
    /\ RecvFrame

NextRecv ==
    \/ Receive
    \/ \E t \in DOMAIN recv : Acquire(t)
    \/ \E t \in DOMAIN recv : RegisterStore(t)
    \/ \E t \in DOMAIN recv : HeartbeatTouch(t)
    \/ \E t \in DOMAIN recv : HeartbeatLoad(t)
    \/ \E t \in DOMAIN recv : HeartbeatStore(t)
    \/ \E t \in DOMAIN recv : HeartbeatRead(t)
    \/ \E t \in DOMAIN recv : Release(t)

SpecRecv == InitRecv /\ [][NextRecv]_vars

RecvTypeOK == servers_lock \in {""} \cup DOMAIN recv

\* the requests for server_id that went through the lock, in the order they left it
Heartbeats(server_id) ==
    {t \in Left : recv[t].route = "/heartbeat" /\ recv[t].data.server_id = server_id}

Registrations(server_id) ==
    {t \in Left : recv[t].route = "/register" /\ recv[t].data.server_id = server_id}

\* the position of the last registration of server_id, 0 when it never registered
LastRegistered(server_id) ==
    IF Registrations(server_id) = {} THEN 0
    ELSE CHOOSE n \in {recv[t].order : t \in Registrations(server_id)} :
            \A t \in Registrations(server_id) : recv[t].order <= n

HeartbeatsSince(server_id) ==
    {t \in Heartbeats(server_id) : recv[t].order > LastRegistered(server_id)}

\* the fields /heartbeat itself maintains
Counters == {"last_seen", "heartbeat_count"}

C29_Step ==
    \A t \in DOMAIN recv :
        (recv[t].route = "/heartbeat" /\ recv[t].pc # "done"
                /\ Registrations(recv[t].data.server_id) # {}) =>
            LET server_id == recv[t].data.server_id
            IN  /\ (recv[t].pc = "release" /\ recv'[t].pc = "done")
                    => \A f \in DOMAIN recv[t].data :
                        /\ f \in DOMAIN servers[server_id]
                        /\ servers[server_id][f] = recv[t].data[f]
                /\ recv'[t] # recv[t]
                    => \A f \in DOMAIN servers[server_id] \ (DOMAIN recv[t].data \cup Counters) :
                        /\ f \in DOMAIN servers'[server_id]
                        /\ servers'[server_id][f] = servers[server_id][f]

\* C29 as stated: a POST /heartbeat for an already registered server id
\* overwrites in the stored record every field its payload carries with the
\* carried value and leaves every field the payload omits at its stored value.
C29_HeartbeatMerges == [][C29_Step]_vars

C30_Counts ==
    servers_lock = "" =>
        \A server_id \in DOMAIN servers :
            servers[server_id].heartbeat_count = Cardinality(HeartbeatsSince(server_id))

C30_Step ==
    \A t \in DOMAIN recv :
        recv'[t] # recv[t] =>
            /\ \A server_id \in DOMAIN servers :
                ("server_id" \notin DOMAIN recv[t].data \/ server_id # recv[t].data.server_id)
                    => /\ server_id \in DOMAIN servers'
                       /\ servers'[server_id] = servers[server_id]
            /\ (recv[t].pc = "release" /\ recv[t].route = "/heartbeat")
                    => recv[t].heartbeat_count = Cardinality(HeartbeatsSince(recv[t].data.server_id)) + 1

\* C30: heartbeat_count of a receiver record increments by exactly one per
\* accepted POST /heartbeat for its server id: after a registration followed
\* by n heartbeats, sequential or concurrent, in any interleaving with
\* requests for other ids, the count is exactly n, and heartbeats for one id
\* never change the count of another id.
C30_ExactHeartbeatCount == []C30_Counts /\ [][C30_Step]_vars

C30_Witness ==
    /\ servers_lock = ""
    /\ DOMAIN recv = {"1", "2", "3"}
    /\ recv["1"].route = "/register"
    /\ recv["1"].order = 1
    /\ recv["2"].route = "/heartbeat"
    /\ recv["3"].route = "/heartbeat"
    /\ \A t \in DOMAIN recv : recv[t].pc = "done" /\ recv[t].data = [server_id |-> "db1_host-a"]
    /\ servers["db1_host-a"].heartbeat_count = 2

C31_Step ==
    \A t \in DOMAIN recv :
        (recv[t].route = "/heartbeat" /\ recv[t].pc = "locked"
                /\ recv'[t].pc # "locked"
                /\ recv[t].data.server_id \notin DOMAIN servers) =>
            LET server_id == recv[t].data.server_id
            IN  /\ server_id \in DOMAIN servers'
                /\ servers'[server_id].heartbeat_count = 1
                /\ \A f \in DOMAIN recv[t].data :
                    /\ f \in DOMAIN servers'[server_id]
                    /\ servers'[server_id][f] = recv[t].data[f]

\* C31 as stated: a POST /heartbeat for a server id the receiver does not know
\* creates a record that contains all fields carried by the heartbeat payload
\* (hostname, ...) with heartbeat_count = 1.
C31_UnknownHeartbeatCreatesFullRecord == [][C31_Step]_vars

(***************************************************************************)
(* tools/terminal.py, database.py, filesystem.py, odoo_tools.py: the       *)
(* handler bodies, from the rate-limit gate to the audit entry             *)
(***************************************************************************)
MaxTimeoutKey == "mcp.command_max_timeout"

DefaultMaxTimeout == 600

\* terminal.py 38: int(ICP.get_param('mcp.command_max_timeout', default=600))
command_max_timeout ==
    IF get_param(MaxTimeoutKey, "") = ""
    THEN Returned(DefaultMaxTimeout)
    ELSE int(config[MaxTimeoutKey])

\* the timeout argument of subprocess.run: a number of seconds or None
Seconds(n) == [bounded |-> TRUE, seconds |-> n]
NoTimeout == [bounded |-> FALSE, seconds |-> 0]

clamp_timeout_unclamped(timeout, max_timeout) ==
    IF timeout = 0 THEN NoTimeout ELSE Seconds(timeout)

\* terminal.py 47-50
clamp_timeout(timeout, max_timeout) ==
    IF timeout > max_timeout
    THEN Seconds(max_timeout)
    ELSE IF timeout = 0
    THEN NoTimeout
    ELSE Seconds(timeout)

\* Where the collaborators of one call fail: nowhere; in the handler's own
\* validation of its arguments and configuration; in the I/O (subprocess,
\* SQL statement, file access, executed code, service or module operation)
\* with an Exception; in the executed code with SystemExit; in the lookup
\* of the requested key of read_config.
Faults ==
    [execute_command |-> {"none", "validation", "io"},
     query_database |-> {"none", "validation", "io"},
     execute_sql |-> {"none", "io"},
     get_db_schema |-> {"none", "validation", "io"},
     read_file |-> {"none", "validation", "io"},
     write_file |-> {"none", "validation", "io"},
     odoo_shell |-> {"none", "validation", "io", "exit"},
     service_status |-> {"none", "validation", "io"},
     read_config |-> {"none", "validation", "io", "lookup"},
     list_modules |-> {"none", "io"},
     get_module_info |-> {"none", "validation", "io"},
     install_module |-> {"none", "validation", "io"},
     upgrade_module |-> {"none", "validation", "io"}]

\* the calls a handler makes, as they appear in the trace
Checked(tool) == Event("rate_check", ToolLimit[tool].category)
Io(tool) == Event("io", tool)
Subprocess(timeout) == [ev |-> "io", arg |-> "execute_command", timeout |-> timeout]
Audit(tool) == Event("audit_log", tool)

Result(tool) == Returned([serializable |-> TRUE, text |-> "result of " \o tool])
Failure(fault) == Raised(fault \o " failed")

\* what a handler did after its gate: its result and the calls it made
Did(r, events) == [r |-> r, events |-> events]

GatedAfterBody(state, t, db, tool, did) ==
    LET lim == ToolLimit[tool]
        step == RateLimitStep(state, t, db, lim.category, lim.max_calls, lim.period)
    IN  IF step.ok
        THEN Ran(did.r, step.state, did.events \o <<Checked(tool)>>)
        ELSE Ran(Raised(RateLimitMessage(lim.category, lim.max_calls, lim.period)),
                 step.state, did.events \o <<Checked(tool)>>)

\* check_rate_limit(env, category, max_calls, period) as the first statement
\* of a handler: the RuntimeError it raises ends the call
Gated(state, t, db, tool, did) ==
    LET lim == ToolLimit[tool]
        step == RateLimitStep(state, t, db, lim.category, lim.max_calls, lim.period)
    IN  IF step.ok
        THEN Ran(did.r, step.state, <<Checked(tool)>> \o did.events)
        ELSE Ran(Raised(RateLimitMessage(lim.category, lim.max_calls, lim.period)),
                 step.state, <<Checked(tool)>>)

\* terminal.py 34-110: the configured maximum, the clamp, subprocess.run
\* inside try/except Exception, the audit entry, the result
execute_command(state, t, db, timeout, fault) ==
    Gated(state, t, db, "execute_command",
          IF command_max_timeout.raised
          THEN Did(Raised(command_max_timeout.msg), <<>>)
          ELSE IF fault = "validation"
          THEN Did(Failure(fault), <<>>)
          ELSE Did(Result("execute_command"),
                   <<Subprocess(clamp_timeout(timeout, command_max_timeout.value)),
                     Audit("execute_command")>>))

\* database.py 31-107: the row limit from the configuration, then cr.execute
\* in a try whose success and except branches both write the audit entry
query_database(state, t, db, fault) ==
    Gated(state, t, db, "query_database",
          CASE fault = "validation" -> Did(Failure(fault), <<>>)
            [] fault = "io" -> Did(Failure(fault),
                                   <<Io("query_database"), Audit("query_database")>>)
            [] OTHER -> Did(Result("query_database"),
                            <<Io("query_database"), Audit("query_database")>>))

\* database.py 128-174
execute_sql(state, t, db, fault) ==
    Gated(state, t, db, "execute_sql",
          IF fault = "io"
          THEN Did(Failure(fault), <<Io("execute_sql"), Audit("execute_sql")>>)
          ELSE Did(Result("execute_sql"), <<Io("execute_sql"), Audit("execute_sql")>>))

\* database.py 198-231, service_status 114-142, list_modules 334-385: no
\* gate; the arguments are validated, the operation runs, the audit entry is
\* written, and the except branch re-raises without one
audited_on_success(state, tool, fault) ==
    CASE fault = "validation" -> Ran(Failure(fault), state, <<>>)
      [] fault = "io" -> Ran(Failure(fault), state, <<Io(tool)>>)
      [] OTHER -> Ran(Result(tool), state, <<Io(tool), Audit(tool)>>)

\* filesystem.py 36-125 and 152-247: the gate, the path and size checks,
\* the file access, the audit entry
file_access(state, t, db, tool, fault) ==
    Gated(state, t, db, tool,
          CASE fault = "validation" -> Did(Failure(fault), <<>>)
            [] fault = "io" -> Did(Failure(fault), <<Io(tool)>>)
            [] OTHER -> Did(Result(tool), <<Io(tool), Audit(tool)>>))

\* odoo_tools.py 28-95: the gate, the comparison of the timeout, exec(code)
\* inside `except Exception`, the audit entry whatever exec did
odoo_shell_exec(state, t, db, fault) ==
    Gated(state, t, db, "odoo_shell",
          CASE fault = "validation" -> Did(Failure(fault), <<>>)
            [] fault = "exit" -> Did(Exited("SystemExit"), <<Io("odoo_shell")>>)
            [] OTHER -> Did(Result("odoo_shell"),
                            <<Io("odoo_shell"), Audit("odoo_shell")>>))

\* odoo_tools.py 273-316: the file is found and parsed, the audit entry is
\* written, then the requested key is looked up
read_config(state, fault) ==
    CASE fault = "validation" -> Ran(Failure(fault), state, <<>>)
      [] fault = "io" -> Ran(Failure(fault), state, <<Io("read_config")>>)
      [] fault = "lookup" -> Ran(Failure(fault), state,
                                 <<Io("read_config"), Audit("read_config")>>)
      [] OTHER -> Ran(Result("read_config"), state,
                      <<Io("read_config"), Audit("read_config")>>)

\* odoo_tools.py 387-500, get_module_info, install_module, upgrade_module:
\* the module is searched, checked and operated on; no gate, no audit entry
module_operation(state, tool, fault) ==
    IF fault = "none"
    THEN Ran(Result(tool), state, <<Io(tool)>>)
    ELSE Ran(Failure(fault), state, <<Io(tool)>>)

\* the handler the registry holds under a name, called with its arguments
Handle(state, t, db, tool, timeout, fault) ==
    CASE tool = "execute_command" -> execute_command(state, t, db, timeout, fault)
      [] tool = "query_database" -> query_database(state, t, db, fault)
      [] tool = "execute_sql" -> execute_sql(state, t, db, fault)
      [] tool \in {"read_file", "write_file"} -> file_access(state, t, db, tool, fault)
      [] tool = "odoo_shell" -> odoo_shell_exec(state, t, db, fault)
      [] tool = "read_config" -> read_config(state, fault)
      [] tool \in {"get_db_schema", "service_status", "list_modules"} ->
            audited_on_success(state, tool, fault)
      [] OTHER -> module_operation(state, tool, fault)

(***************************************************************************)
(* SpecHand: handlers called one after another on one database             *)
(***************************************************************************)
\* the timeout a caller asks execute_command for; 30 is the default
RequestedTimeouts == {-1, 0, 1, 2, 3, 30, 601}

MaxTimeoutChoices == {Unset, "2", "-1", "abc"}

InitHand ==
    /\ now = 0
    /\ focus \in [db : DBs]
    /\ rate_limit_state = WarmState(focus.db)
    /\ log = <<>>
    /\ quota = EmptyDict
    /\ ThreadsIdle
    /\ DispatcherIdle
    /\ HomeIdle
    /\ \E m \in MaxTimeoutChoices :
        config = IF m = Unset THEN EmptyDict ELSE DictSet(EmptyDict, MaxTimeoutKey, m)
    /\ regs = EmptyDict
    /\ posts = <<>>
    /\ sleeps = <<>>
    /\ servers = EmptyDict
    /\ servers_lock = ""
    /\ recv = EmptyDict
    /\ health = EmptyDict

\* one call of a handler, from its first statement to its return or raise
HandlerRun ==
    /\ phase = "idle"
    /\ \E tool \in ToolNames :
        \E fault \in Faults[tool] :
            \E timeout \in IF tool = "execute_command" THEN RequestedTimeouts ELSE {30} :
                LET ran == Handle(rate_limit_state, now, focus.db, tool, timeout, fault)
                IN  /\ request' = [tool_name |-> tool, timeout |-> timeout,
                                   fault |-> fault]
                    /\ response' = ran.r
                    /\ rate_limit_state' = ran.state
                    /\ trace' = ran.events
    /\ phase' = "returned"
    /\ UNCHANGED <<now, log, focus, quota, thVars>>
    /\ UNCHANGED homeVars
    /\ UNCHANGED <<netVars, recvVars, health>>

NextHand == HandlerRun \/ Returns

SpecHand == InitHand /\ [][NextHand]_vars

Ios == {i \in DOMAIN trace : trace[i].ev = "io"}
Audits == {i \in DOMAIN trace : trace[i].ev = "audit_log"}
RateChecks == {i \in DOMAIN trace : trace[i].ev = "rate_check"}

HandlerReturned == phase = "returned" /\ "fault" \in DOMAIN request

\* the RuntimeError of the gate of a gated handler
RateLimited ==
    /\ request.tool_name \in DOMAIN ToolLimit
    /\ response = Raised(RateLimitMessage(ToolLimit[request.tool_name].category,
                                          ToolLimit[request.tool_name].max_calls,
                                          ToolLimit[request.tool_name].period))

\* C32 as stated: whatever timeout the caller asks for, 0 included, the
\* timeout execute_command passes to subprocess.run is a number of seconds
\* no greater than mcp.command_max_timeout.
C32_AlwaysBounded ==
    (HandlerReturned /\ request.tool_name = "execute_command")
        => \A i \in Ios :
            /\ trace[i].timeout.bounded
            /\ trace[i].timeout.seconds <= command_max_timeout.value

\* C32: for every requested timeout other than 0, negative values and values
\* above the maximum included, the timeout execute_command passes to the
\* subprocess is a number of seconds no greater than mcp.command_max_timeout
\* (the request itself, or the maximum when the request exceeds it); a
\* requested 0 passes None, no timeout, unless the maximum is negative.
C32_BoundedUnlessZero ==
    (HandlerReturned /\ request.tool_name = "execute_command")
        => \A i \in Ios :
            LET max_timeout == command_max_timeout.value
            IN  IF request.timeout = 0 /\ max_timeout >= 0
                THEN trace[i].timeout = NoTimeout
                ELSE /\ trace[i].timeout.bounded
                     /\ trace[i].timeout.seconds <= max_timeout
                     /\ trace[i].timeout.seconds \in {request.timeout, max_timeout}

C32_Witness ==
    /\ HandlerReturned
    /\ request.tool_name = "execute_command"
    /\ request.timeout = 601
    /\ config = EmptyDict
    /\ \E i \in Ios : trace[i].timeout = Seconds(DefaultMaxTimeout)

\* C33: every call that reaches its handler and is not rejected by the rate
\* limiter invokes audit_log exactly once, never zero times and never twice,
\* whether the handler succeeds or fails.
C33_AuditedExactlyOnce ==
    (HandlerReturned /\ ~RateLimited) => Cardinality(Audits) = 1

\* C34: every handler calls check_rate_limit on its category before it
\* starts any collaborator I/O (command, SQL statement, file access, code
\* execution, module or service operation).
C34_GateBeforeIo ==
    HandlerReturned
        => \A i \in Ios :
            \E j \in RateChecks :
                /\ j < i
                /\ request.tool_name \in DOMAIN ToolLimit
                /\ trace[j].arg = ToolLimit[request.tool_name].category

C37_Step ==
    (phase = "idle" /\ phase' = "returned" /\ request'.tool_name \in DOMAIN ToolLimit)
        => LET lim == ToolLimit[request'.tool_name]
               before == Bucket(rate_limit_state, focus.db, lim.category)
               after == Bucket(rate_limit_state', focus.db, lim.category)
           IN  IF Len(Prune(before, now, lim.period)) >= lim.max_calls
               THEN \* rejected: nothing started, nothing audited
                    /\ response' = Raised(RateLimitMessage(lim.category, lim.max_calls,
                                                           lim.period))
                    /\ \A i \in DOMAIN trace' : trace'[i].ev \notin {"io", "audit_log"}
                    /\ after = before
               ELSE \* accepted: one slot is taken, whatever the handler did next
                    /\ after = Append(before, now)
                    /\ response' # Raised(RateLimitMessage(lim.category, lim.max_calls,
                                                           lim.period))

\* C37: for the six handlers that call check_rate_limit, a call the limiter
\* rejects starts no subprocess, SQL statement, file access or code
\* execution and writes no audit entry; a call it accepts takes one slot of
\* the bucket even when the handler then fails its validation or execution.
C37_RejectedDoesNothing == [][C37_Step]_vars

C37_Witness ==
    /\ HandlerReturned
    /\ request.tool_name = "odoo_shell"
    /\ RateLimited
    /\ trace = <<Checked("odoo_shell")>>
    /\ Len(Bucket(rate_limit_state, focus.db, "command")) = 10
    /\ Len(Bucket(rate_limit_state, focus.db, "query")) = 100

(***************************************************************************)
(* Claims about the state the dispatcher keeps, checked under SpecDisp     *)
(***************************************************************************)
\* the URIs _handle_resources_read hands to a reader
ReadableUris ==
    {"odoo://config", "odoo://logs/odoo", "odoo://logs/cron", "odoo://schema/res_users",
     "odoo://modules", "odoo://system"}

\* A request that names no registered tool and no readable resource: no
\* body, no JSON, no object, a wrong version tag, a method other than
\* tools/call and resources/read, a missing or unknown tool name or URI.
StopsAtDispatcher(raw) ==
    \/ raw.kind # "json"
    \/ raw.json.t # "obj"
    \/ LET req == raw.json
       IN  \/ ~IsStr(req.jsonrpc, "2.0")
           \/ req.method.t # "str"
           \/ req.method.v \notin {"tools/call", "resources/read"}
           \/ /\ req.method.v = "tools/call"
              /\ \/ req.params.t # "obj"
                 \/ req.params.name.t # "str"
                 \/ req.params.name.v \notin ToolNames
           \/ /\ req.method.v = "resources/read"
              /\ \/ req.params.t # "obj"
                 \/ req.params.uri.t # "str"
                 \/ req.params.uri.v \notin ReadableUris

C35_Step ==
    (phase = "idle" /\ phase' # "idle" /\ StopsAtDispatcher(request'))
        => /\ rate_limit_state' = rate_limit_state
           /\ config' = config
           /\ trace' = <<>>
           /\ phase' = "responded"
           /\ \A outcome \in Outcomes :
                response' = mcp_endpoint(EmptyDict, 0, focus.db, request', outcome).r

\* C35: a request that does not reach a tool handler (parse error, invalid
\* envelope, unknown method, initialize, tools/list, resources/list,
\* tools/call or resources/read with a missing or unknown name or URI) runs
\* no handler, gate, reader or audit entry, leaves every rate-limit bucket
\* and the configuration unchanged, and is answered as it would be by a
\* server that never handled a request.
C35_NoCrossRequestState == [][C35_Step]_vars

C35_Witness ==
    /\ phase = "responded"
    /\ StopsAtDispatcher(request)
    /\ rate_limit_state # WarmState(focus.db)
    /\ IsError(-32602)
    /\ request.json.method = JStr("tools/call")
    /\ trace = <<>>

(***************************************************************************)
(* Claims about rejected calls, checked under Spec                         *)
(***************************************************************************)
\* the timestamps of a list that a call at time t with this period keeps
Unexpired(calls, t, period) == SelectSeq(calls, LAMBDA c : t - c < period)

SameQuota == \A i, j \in DOMAIN log :
                /\ log[i].max_calls = log[j].max_calls
                /\ log[i].period = log[j].period

\* C36: a rejected check_rate_limit call leaves in the bucket exactly the
\* timestamps that were unexpired when it ran, adding none, so the next
\* call sees no more unexpired timestamps than if the rejected call had not
\* been made (the same ones when the period is the same);
\* and while every call uses the same max_calls and period the bucket never
\* holds more than max_calls timestamps.
C36_RejectedRecordsNothing ==
    /\ \A n \in DOMAIN log :
        ~log[n].ok =>
            /\ log[n].after = Unexpired(log[n].before, log[n].t, log[n].period)
            /\ Len(log[n].after) >= log[n].max_calls
    /\ \A n \in DOMAIN log :
        (n > 1 /\ ~log[n - 1].ok) =>
            LET seen == Unexpired(log[n].before, log[n].t, log[n].period)
                without == Unexpired(log[n - 1].before, log[n].t, log[n].period)
            IN  /\ Len(seen) <= Len(without)
                /\ log[n].period = log[n - 1].period => seen = without
    /\ (SameQuota /\ log # <<>>)
            => Len(Bucket(rate_limit_state, focus.db, focus.cat)) <= log[1].max_calls

C36_Witness ==
    \E n \in DOMAIN log :
        /\ ~log[n].ok
        /\ Len(log[n].after) < Len(log[n].before)
        /\ Len(log[n].after) >= 1
        /\ n < Len(log)
        /\ log[n + 1].ok
        /\ log[n + 1].max_calls = log[n].max_calls
        /\ log[n + 1].period = log[n].period

(***************************************************************************)
(* Claims about the marker after a failed registration, under SpecHome     *)
(***************************************************************************)
\* the live hostname is the stored marker
Persisted == marker = hostname

\* the tick's register_server returned this value
TickRegistered(ok) == sent # <<>> /\ sent[1] = Event("register", ok)

C38_State ==
    /\ \A h \in DOMAIN health :
        (health[h].pc # "get_param" /\ health[h].last_hostname = hostname)
            => /\ health[h].thread = "none"
               /\ h \notin DOMAIN regs
    /\ (cron.pc \notin {"idle", "get_param"} /\ cron.last_hostname = hostname)
            => /\ cron.pc \in {"compare", "heartbeat", "beating", "done"}
               /\ \A i \in DOMAIN sent : sent[i].ev # "register"

C38_Step ==
    /\ (cron.pc = "registering" /\ cron'.pc # "registering")
            => /\ cron'.pc = "set_param"
               /\ TickRegistered(BoolTextOf(regs["cron"].result))'
    /\ (cron.pc = "set_param" /\ cron'.pc # "set_param")
            => /\ TickRegistered("True") \/ TickRegistered("False")
               /\ marker' = hostname
    /\ \A h \in DOMAIN health :
        (health[h].thread = "registering" /\ health'[h].thread # "registering")
            => /\ regs[h].pc = "returned"
               /\ marker' = hostname
    /\ Persisted => Persisted'
    /\ Persisted => \A c \in DOMAIN regs' :
                        Invokes(c) => IF c = "cron"
                                      THEN cron.last_hostname # hostname
                                      ELSE health[c].last_hostname # hostname

\* C38: a tick that found a mismatch writes the live hostname to the marker
\* after register_server returned, true or false alike, and so does the
\* background task of a health check; once the marker holds the live
\* hostname it keeps it, and no tick or health check that reads the marker
\* from then on invokes register_server, a failed registration included
\* (only one that read the marker before it was written still does).
C38_PersistedAfterFailure == []C38_State /\ [][C38_Step]_vars

C38_Witness ==
    /\ TickRegistered("False")
    /\ cron.last_hostname = "host-a"
    /\ cron.pc = "done"
    /\ Persisted
    /\ "check1" \in DOMAIN health
    /\ health["check1"].pc = "done"
    /\ health["check1"].last_hostname = hostname
    /\ health["check1"].thread = "none"
    /\ \A i \in DOMAIN posts : posts[i].caller = "cron"

(***************************************************************************)
(* Claims about /register, checked under SpecRecv                          *)
(***************************************************************************)
\* a request the handlers answer with 400: no body, or a body with no server_id
Refused(t) == recv[t].data = EmptyDict \/ "server_id" \notin DOMAIN recv[t].data

C40_State ==
    \A t \in DOMAIN recv :
        Refused(t) => /\ recv[t].status = 400
                      /\ recv[t].pc = "done"
                      /\ recv[t].order = 0

C40_Step ==
    /\ \A t \in DOMAIN recv :
        (recv[t].route = "/register" /\ recv[t].pc = "locked" /\ recv'[t].pc # "locked")
            => LET data == recv[t].data
                   server_id == data.server_id
               IN  /\ server_id \in DOMAIN servers'
                   /\ DOMAIN servers'[server_id]
                        = DOMAIN data \cup {"registered_at", "last_seen", "heartbeat_count"}
                   /\ \A f \in DOMAIN data : servers'[server_id][f] = data[f]
                   /\ servers'[server_id].registered_at = recv[t].now
                   /\ servers'[server_id].last_seen = recv[t].now
                   /\ servers'[server_id].heartbeat_count = 0
                   /\ \A o \in DOMAIN servers \ {server_id} :
                        o \in DOMAIN servers' /\ servers'[o] = servers[o]
    /\ servers' # servers
            => \E t \in DOMAIN recv :
                /\ ~Refused(t)
                /\ recv[t].pc \in {"locked", "store"}
                /\ recv'[t] # recv[t]
    /\ \A t \in DOMAIN recv' \ DOMAIN recv : servers' = servers

\* C40: a POST /register stores under its server id exactly the fields of
\* its payload with registered_at and last_seen set to now and
\* heartbeat_count 0, whatever record the id had before (no earlier field
\* survives, a count reached by heartbeats is erased, registering the same
\* payload again leaves what one registration leaves) and touches no other
\* record; a /register or /heartbeat with no body or no server_id is
\* answered 400 and never changes the store.
C40_RegisterReplaces == []C40_State /\ [][C40_Step]_vars

C40_Witness ==
    /\ \E a, b, c \in DOMAIN recv :
        /\ recv[a].route = "/register" /\ recv[b].route = "/heartbeat"
        /\ recv[c].route = "/register"
        /\ recv[a].order = 1 /\ recv[b].order = 2 /\ recv[c].order = 3
        /\ recv[a].data = [server_id |-> "db1_host-a", hostname |-> "host-a"]
        /\ recv[b].data.server_id = "db1_host-a"
        /\ recv[b].heartbeat_count = 1
        /\ recv[c].data = [server_id |-> "db1_host-a"]
    /\ servers["db1_host-a"].heartbeat_count = 0
    /\ "hostname" \notin DOMAIN servers["db1_host-a"]

(***************************************************************************)
(* SpecRace: health checks with their background tasks, heartbeat ticks    *)
(* that keep coming and a host that may be renamed at any moment;          *)
(* register_server and send_heartbeat taken as single steps                *)
(***************************************************************************)
MaxChecks == 1

\* mcp_endpoint.py 102-118, while the model has health checks left
RaceHealthRequest ==
    /\ Cardinality(DOMAIN health) < MaxChecks
    /\ HealthRequest

\* mcp_endpoint.py 129: register_server(env) of a background task runs to
\* its return; it returns a bool and raises nothing
TaskRegisterReturns(h) ==
    /\ health[h].thread = "registering"
    /\ regs[h].pc = "start"
    /\ \E ok \in BOOLEAN : regs' = [regs EXCEPT ![h] = Return(@, ok)]
    /\ UNCHANGED <<marker, cron, sent, health>>
    /\ HomeFrame

\* the steps of a heartbeat tick, which ir.cron starts again and again
TickSteps ==
    \/ CronGetHostname
    \/ CronGetParam
    \/ CronCompare
    \/ CronRegister
    \/ CronSetParam
    \/ CronHeartbeat
    \/ CronReturn

\* the steps of a health check that has arrived and of its background task
CheckSteps ==
    \E h \in DOMAIN health :
        \/ HealthGetParam(h)
        \/ HealthCompare(h)
        \/ HealthRespond(h)
        \/ TaskRegister(h)
        \/ TaskRegisterReturns(h)
        \/ TaskSetParam(h)

NextRace ==
    \/ RaceHealthRequest
    \/ \E h \in DOMAIN health : HealthGetParam(h)
    \/ \E h \in DOMAIN health : HealthCompare(h)
    \/ \E h \in DOMAIN health : HealthRespond(h)
    \/ \E h \in DOMAIN health : TaskRegister(h)
    \/ \E h \in DOMAIN health : TaskRegisterReturns(h)
    \/ \E h \in DOMAIN health : TaskSetParam(h)
    \/ CronGetHostname
    \/ CronGetParam
    \/ CronCompare
    \/ CronRegister
    \/ CronSetParam
    \/ CronHeartbeat
    \/ CronReturn
    \/ Rename

\* ir.cron keeps scheduling the tick and a tick runs to its end; a request
\* thread and a daemon thread that were started keep running
SpecRace ==
    /\ InitCron
    /\ [][NextRace]_vars
    /\ WF_vars(TickSteps)
    /\ WF_vars(CheckSteps)

\* no registration is under way or about to start, no write of the marker
\* is pending, and the marker is the live hostname
Settled ==
    /\ marker = hostname
    /\ cron.pc \notin {"register", "set_param"}
    /\ \A h \in DOMAIN health : health[h].thread \in {"none", "done"}

\* C39: whatever the races between background tasks and ticks on the
\* marker, if the live hostname stops changing then, with ticks that keep
\* firing and tasks that run to their end, the marker eventually equals the
\* live hostname and from then on no trigger invokes register_server or
\* writes the marker.
C39_MarkerConverges ==
    \A name \in Hostnames :
        <>[](hostname = name) => <>[](Settled /\ hostname = name)

\* a background task has overwritten the newer marker of a tick with the
\* hostname it captured before the rename
C39_Witness ==
    /\ marker # hostname
    /\ \E h \in DOMAIN health :
        /\ health[h].thread = "done"
        /\ health[h].current_hostname = marker
    /\ \E i \in DOMAIN sent : sent[i] = Event("set_param", hostname)
    /\ cron.current_hostname = hostname

====
